---- MODULE Spec2Model ----
(***************************************************************************)
(* A model of UniTable (Code/pylib/unitable.py): the table's stored state, *)
(* its builders and mutators, and draw() with the width allocator, the     *)
(* wrapper, the ANSI repair and the line drawing it calls.                 *)
(*                                                                         *)
(* A Python str is a sequence of code points; a code point is named by a   *)
(* string: an ASCII character by itself ("A", " ", "[") and any other one  *)
(* by its name ("ESC", "U2500", "CJK1", "DQUOTE", "BACKTICK").  S("ab") is *)
(* the str "ab".                                                           *)
(***************************************************************************)
EXTENDS Integers, Sequences, FiniteSets, TLC

S(str) == [i \in 1..Len(str) |-> SubSeq(str, i, i)]

Chars(str) == {SubSeq(str, i, i) : i \in 1..Len(str)}

Max2(a, b) == IF a >= b THEN a ELSE b

Min2(a, b) == IF a <= b THEN a ELSE b

ESC == "ESC"

NL == "\n"

TAB == "\t"

\* Code points outside ASCII that the model's texts may contain.
WideChars == {"CJK1", "CJK2"}

CombiningChars == {"COMB"}

ControlChars == {ESC, NL, TAB}

\* The character classes of the escape-sequence grammar.
FeBytes == Chars("@ABCDEFGHIJKLMNOPQRSTUVWXYZ") \cup {"\\", "]", "^", "_"}

ParamBytes == Chars("0123456789:;<=>?")

InterBytes == Chars(" !#$%&'()*+,-./") \cup {"DQUOTE"}

FinalBytes ==
    Chars("@ABCDEFGHIJKLMNOPQRSTUVWXYZ[]^_abcdefghijklmnopqrstuvwxyz{|}~") \cup {"\\", "BACKTICK"}

RECURSIVE SkipClass(_, _, _)
\* The first index at or after i whose code point is not in Cls (a greedy X*).
SkipClass(s, i, Cls) ==
    IF i <= Len(s) /\ s[i] \in Cls THEN SkipClass(s, i + 1, Cls) ELSE i

\* s[i] is ESC: the index after the escape sequence that starts at i, 0 if the
\* pattern \x1B(?:[@-Z\\-_]|\[[0-?]*[ -/]*[@-~]) does not match there.
AnsiEscapeEnd(s, i) ==
    IF i + 1 > Len(s) THEN 0
    ELSE IF s[i + 1] \in FeBytes THEN i + 2
    ELSE IF s[i + 1] = "["
         THEN LET j == SkipClass(s, i + 2, ParamBytes)
                  k == SkipClass(s, j, InterBytes)
              IN  IF k <= Len(s) /\ s[k] \in FinalBytes THEN k + 1 ELSE 0
         ELSE 0

RECURSIVE StripFrom(_, _)
StripFrom(s, i) ==
    IF i > Len(s) THEN <<>>
    ELSE LET e == IF s[i] = ESC THEN AnsiEscapeEnd(s, i) ELSE 0
         IN  IF e > 0 THEN StripFrom(s, e) ELSE <<s[i]>> \o StripFrom(s, i + 1)

\* The string measured with its escape sequences left in
StripNothing(s) == s

\* ansi_escape.sub('', string)
StripAnsi(s) == StripFrom(s, 1)

\* wcwidth of one code point.
WcWidth(c) ==
    IF c \in ControlChars THEN -1
    ELSE IF c \in CombiningChars THEN 0
    ELSE IF c \in WideChars THEN 2
    ELSE 1

RECURSIVE SumWidth(_, _)
SumWidth(s, i) == IF i > Len(s) THEN 0 ELSE WcWidth(s[i]) + SumWidth(s, i + 1)

\* wcswidth: -1 as soon as one code point is not printable.
WcsWidth(s) ==
    IF \E i \in 1..Len(s) : WcWidth(s[i]) < 0 THEN -1 ELSE SumWidth(s, 1)

\* StringLengthCalculator.len
VisLen(s) == WcsWidth(StripAnsi(s))

\* str.find(c) + 1: the first index of c in s, 0 when absent.
IndexOf(s, c) ==
    IF \E i \in 1..Len(s) : s[i] = c
    THEN CHOOSE i \in 1..Len(s) : s[i] = c /\ \A j \in 1..(i - 1) : s[j] # c
    ELSE 0

RECURSIVE Split(_, _)
\* str.split(sep) for a one-character separator.
Split(s, sep) ==
    LET i == IndexOf(s, sep)
    IN  IF i = 0 THEN <<s>>
        ELSE <<SubSeq(s, 1, i - 1)>> \o Split(SubSeq(s, i + 1, Len(s)), sep)

RECURSIVE Rep(_, _)
\* text * n
Rep(text, n) == IF n <= 0 THEN <<>> ELSE text \o Rep(text, n - 1)

RECURSIVE Join(_, _)
\* sep.join(parts)
Join(sep, parts) ==
    IF parts = <<>> THEN <<>>
    ELSE IF Len(parts) = 1 THEN parts[1]
    ELSE parts[1] \o sep \o Join(sep, Tail(parts))

TabStop == 8

\* length = (length // 8 + 1) * 8, for every part but the last
NextTabStop(length, last) ==
    IF last THEN length ELSE ((length \div TabStop) + 1) * TabStop

RECURSIVE TabLen(_, _, _)
\* The inner loop of _len_cell over the tab-separated parts of one line.
TabLen(parts, i, length) ==
    IF i > Len(parts) THEN length
    ELSE TabLen(parts, i + 1, NextTabStop(length + VisLen(parts[i]), i = Len(parts)))

RECURSIVE MaxLineLen(_, _, _)
MaxLineLen(cell_lines, i, maxi) ==
    IF i > Len(cell_lines) THEN maxi
    ELSE MaxLineLen(cell_lines, i + 1,
                    Max2(maxi, TabLen(Split(cell_lines[i], TAB), 1, 0)))

\* _len_cell with every tab advancing by a full tab stop
LenCellWide(cell) == MaxLineLen(Split(cell, NL), 1, 0) + (IF IndexOf(cell, TAB) > 0 THEN 1 ELSE 0)

\* UniTable._len_cell
LenCell(cell) == MaxLineLen(Split(cell, NL), 1, 0)

(***************************************************************************)
(* ColumnWidthAllocator: UniTable._compute_cols_width                      *)
(***************************************************************************)

\* hasattr(self, "_width") is false: no width vector is stored.
NoWidth == <<-1>>

\* hasattr(self, "_align") (or "_header_align", "_valign", "_dtype") is false.
NoAttr == <<"absent">>

TooLow == "ValueError: max_width too low to render data"

RECURSIVE SumSeq(_, _)
SumSeq(q, i) == IF i > Len(q) THEN 0 ELSE q[i] + SumSeq(q, i + 1)

\* maxi[i] = v in place of the maximum
UpdMaxiLast(maxi, i, v) ==
    IF i <= Len(maxi) THEN [maxi EXCEPT ![i] = v] ELSE Append(maxi, v)

\* maxi[i] = max(maxi[i], v), or maxi.append(v) on IndexError
UpdMaxi(maxi, i, v) ==
    IF i <= Len(maxi) THEN [maxi EXCEPT ![i] = Max2(@, v)] ELSE Append(maxi, v)

RECURSIVE RowMaxi(_, _, _)
RowMaxi(maxi, row, i) ==
    IF i > Len(row) THEN maxi
    ELSE RowMaxi(UpdMaxi(maxi, i, LenCell(row[i])), row, i + 1)

RECURSIVE RowsMaxi(_, _, _)
RowsMaxi(maxi, rws, r) ==
    IF r > Len(rws) THEN maxi ELSE RowsMaxi(RowMaxi(maxi, rws[r], 1), rws, r + 1)

\* The natural widths: the header's cells, then every row's cells.
NaturalWidths(hdr, rws) == RowsMaxi([i \in 1..Len(hdr) |-> LenCell(hdr[i])], rws, 1)

\* deco_width = 3 * (ncols - 1) + [0, 4][self.has_border]
DecoWidth(ncols, border) == 3 * (ncols - 1) + (IF border THEN 4 ELSE 0)

RECURSIVE Redistribute(_, _, _, _)
\* The round-robin loop; i is the 1-based column index.
Redistribute(maxi, newmaxi, i, available_width) ==
    IF available_width <= 0 THEN newmaxi
    ELSE IF newmaxi[i] < maxi[i]
         THEN Redistribute(maxi, [newmaxi EXCEPT ![i] = @ + 1],
                           (i % Len(maxi)) + 1, available_width - 1)
         ELSE Redistribute(maxi, newmaxi, (i % Len(maxi)) + 1, available_width)

\* The test with <= in place of <: the minimum itself is refused.
BelowMinimumOrAt(maxw, ncols, deco_width) == maxw <= ncols + deco_width

\* if self._max_width < (ncols + deco_width)
BelowMinimum(maxw, ncols, deco_width) == maxw < ncols + deco_width

\* The allocation with available_width one less than max_width - deco_width
FitWidthsOneLess(cur, maxi, maxw, deco_width) ==
    IF maxw # 0 /\ SumSeq(maxi, 1) + deco_width > maxw
    THEN IF BelowMinimum(maxw, Len(maxi), deco_width)
         THEN [err |-> TooLow, width |-> cur]
         ELSE [err |-> "",
               width |-> Redistribute(maxi, [i \in 1..Len(maxi) |-> 0], 1,
                                      maxw - deco_width - 1)]
    ELSE [err |-> "", width |-> maxi]

\* maxw = 0 models self._max_width = False.  The result is the width vector
\* to store, or the error raised (and then nothing is stored).
FitWidths(cur, maxi, maxw, deco_width) ==
    IF maxw # 0 /\ SumSeq(maxi, 1) + deco_width > maxw
    THEN IF BelowMinimum(maxw, Len(maxi), deco_width)
         THEN [err |-> TooLow, width |-> cur]
         ELSE [err |-> "",
               width |-> Redistribute(maxi, [i \in 1..Len(maxi) |-> 0], 1,
                                      maxw - deco_width)]
    ELSE [err |-> "", width |-> maxi]

RECURSIVE GreedyFill(_, _, _)
\* The budget handed out column by column, each filled up to its natural
\* width before the next gets anything
GreedyFill(maxi, i, available_width) ==
    IF i > Len(maxi) THEN <<>>
    ELSE <<Min2(maxi[i], available_width)>>
            \o GreedyFill(maxi, i + 1, available_width - Min2(maxi[i], available_width))

\* The allocation without the round robin
AllocateWidthsGreedy(cur, maxi, maxw, border) ==
    IF maxw # 0 /\ SumSeq(maxi, 1) + DecoWidth(Len(maxi), border) > maxw
    THEN IF BelowMinimum(maxw, Len(maxi), DecoWidth(Len(maxi), border))
         THEN [err |-> TooLow, width |-> cur]
         ELSE [err |-> "",
               width |-> GreedyFill(maxi, 1, maxw - DecoWidth(Len(maxi), border))]
    ELSE [err |-> "", width |-> maxi]

\* The allocation for the natural widths maxi
AllocateWidths(cur, maxi, maxw, border) ==
    FitWidths(cur, maxi, maxw, DecoWidth(Len(maxi), border))

\* _compute_cols_width without its early return on a stored vector
ComputeColsWidthAfresh(cur, hdr, rws, maxw, border) ==
    AllocateWidths(cur, NaturalWidths(hdr, rws), maxw, border)

ComputeColsWidth(cur, hdr, rws, maxw, border) ==
    IF cur # NoWidth THEN [err |-> "", width |-> cur]
    ELSE AllocateWidths(cur, NaturalWidths(hdr, rws), maxw, border)

(***************************************************************************)
(* CellWrapper: textwrapper (textwrap.wrap with its defaults) on texts     *)
(* without hyphens, and UniTable._splitit                                  *)
(***************************************************************************)

Whitespace == {" ", TAB, NL}

\* chunk.strip() == ''
IsBlank(s) == \A i \in 1..Len(s) : s[i] \in Whitespace

RECURSIVE ExpandTabsFrom(_, _, _)
ExpandTabsFrom(s, i, col) ==
    IF i > Len(s) THEN <<>>
    ELSE IF s[i] = TAB
         THEN LET n == TabStop - (col % TabStop)
              IN  Rep(<<" ">>, n) \o ExpandTabsFrom(s, i + 1, col + n)
         ELSE <<s[i]>> \o ExpandTabsFrom(s, i + 1, col + 1)

\* TextWrapper._munge_whitespace: expand tabs, then every whitespace is a space.
Munge(s) ==
    LET e == ExpandTabsFrom(s, 1, 0)
    IN  [i \in 1..Len(e) |-> IF e[i] \in Whitespace THEN " " ELSE e[i]]

RECURSIVE SkipNot(_, _, _)
SkipNot(s, i, Cls) ==
    IF i <= Len(s) /\ s[i] \notin Cls THEN SkipNot(s, i + 1, Cls) ELSE i

RECURSIVE SplitChunks(_)
\* TextWrapper._split: the runs of spaces and the words between them.
SplitChunks(s) ==
    IF Len(s) = 0 THEN <<>>
    ELSE LET e == IF s[1] = " " THEN SkipClass(s, 1, {" "}) ELSE SkipNot(s, 1, {" "})
         IN  <<SubSeq(s, 1, e - 1)>> \o SplitChunks(SubSeq(s, e, Len(s)))

RECURSIVE TakeFit(_, _, _, _)
\* The index of the first chunk that no longer fits on the current line.
TakeFit(chunks, k, cur_len, width) ==
    IF k <= Len(chunks) /\ cur_len + Len(chunks[k]) <= width
    THEN TakeFit(chunks, k + 1, cur_len + Len(chunks[k]), width)
    ELSE k

RECURSIVE Flatten(_)
Flatten(parts) == IF Len(parts) = 0 THEN <<>> ELSE parts[1] \o Flatten(Tail(parts))

\* if self.drop_whitespace and cur_line and cur_line[-1].strip() == ''
DropBlankEnd(cur_line) ==
    IF Len(cur_line) > 0 /\ IsBlank(cur_line[Len(cur_line)])
    THEN SubSeq(cur_line, 1, Len(cur_line) - 1)
    ELSE cur_line

\* if cur_line: lines.append(''.join(cur_line))
JoinedLine(kept) == IF Len(kept) > 0 THEN <<Flatten(kept)>> ELSE <<>>

\* _handle_long_word: the chunk that follows is longer than the width and
\* is broken at the space left on the line.
BrokenLine(fit, rest, space_left) ==
    [line |-> JoinedLine(DropBlankEnd(Append(fit, SubSeq(rest[1], 1, space_left)))),
     rest |-> <<SubSeq(rest[1], space_left + 1, Len(rest[1]))>> \o Tail(rest)]

\* The line made of the chunks fit, and the chunks rest left for the next.
FilledLine(fit, rest, width) ==
    IF Len(rest) > 0 /\ Len(rest[1]) > width
    THEN BrokenLine(fit, rest, IF width < 1 THEN 1 ELSE width - Len(Flatten(fit)))
    ELSE [line |-> JoinedLine(DropBlankEnd(fit)), rest |-> rest]

\* The chunks split at index k, the first that does not fit.
LineAt(chunks, k, width) ==
    FilledLine(SubSeq(chunks, 1, k - 1), SubSeq(chunks, k, Len(chunks)), width)

LineFrom(chunks, width) == LineAt(chunks, TakeFit(chunks, 1, 0, width), width)

\* One pass of the loop of _wrap_chunks: a leading blank chunk is dropped
\* unless the line is the first.
LineOf(chunks0, width, later) ==
    LineFrom(IF IsBlank(chunks0[1]) /\ later THEN Tail(chunks0) ELSE chunks0, width)

RECURSIVE WrapChunks(_, _, _)
\* TextWrapper._wrap_chunks with drop_whitespace and break_long_words.
WrapChunks(chunks0, width, lines) ==
    IF Len(chunks0) = 0 THEN lines
    ELSE WrapChunks(LineOf(chunks0, width, Len(lines) > 0).rest, width,
                    lines \o LineOf(chunks0, width, Len(lines) > 0).line)

BadWidth == "ValueError: invalid width (must be > 0)"

\* textwrapper(txt, width)
TextWrap(txt, width) ==
    IF width <= 0 THEN [err |-> BadWidth, lines |-> <<>>]
    ELSE [err |-> "", lines |-> WrapChunks(SplitChunks(Munge(txt)), width, <<>>)]

\* The lines of two results in order, or the first error raised.
Both(here, more) ==
    IF here.err # "" THEN here
    ELSE IF more.err # "" THEN [err |-> more.err, lines |-> <<>>]
    ELSE [err |-> "", lines |-> here.lines \o more.lines]

RECURSIVE WrapParts(_, _, _)
\* The loop over cell.split('\n') in _splitit: blank lines are kept as "".
WrapParts(parts, i, width) ==
    IF i > Len(parts) THEN [err |-> "", lines |-> <<>>]
    ELSE Both(IF IsBlank(parts[i]) THEN [err |-> "", lines |-> << <<>> >>]
              ELSE TextWrap(parts[i], width),
              WrapParts(parts, i + 1, width))

WrapCell(cell, width) == WrapParts(Split(cell, NL), 1, width)

(***************************************************************************)
(* AnsiContinuityProcessor: UniTable._process_lines                        *)
(***************************************************************************)

\* "\033[0m"
ResetSeq == <<ESC, "[", "0", "m">>

\* The text from index i on contains a reset sequence: .*\033\[0m matches.
HasResetFrom(s, i) == \E j \in i..(Len(s) - 3) : SubSeq(s, j, j + 3) = ResetSeq

\* The index after a match of \033\[(?:(?!0m)[0-?]*[ -/]*[@-~]) at i, else 0.
NonResetEnd(s, i) ==
    IF s[i] # ESC \/ i + 1 > Len(s) THEN 0
    ELSE IF s[i + 1] # "[" THEN 0
    ELSE IF i + 3 <= Len(s) /\ s[i + 2] = "0" /\ s[i + 3] = "m" THEN 0
    ELSE LET j == SkipClass(s, i + 2, ParamBytes)
             k == SkipClass(s, j, InterBytes)
         IN  IF k <= Len(s) /\ s[k] \in FinalBytes THEN k + 1 ELSE 0

RECURSIVE Unterminated(_, _)
\* "".join(self.non_reset_not_followed_by_reset.findall(line))
Unterminated(s, i) ==
    IF i > Len(s) THEN <<>>
    ELSE LET e == NonResetEnd(s, i)
         IN  IF e > 0 /\ ~HasResetFrom(s, e)
             THEN SubSeq(s, i, e - 1) \o Unterminated(s, e)
             ELSE Unterminated(s, i + 1)

\* The pass without lines[i] += "\033[0m"
RepairedOpen(l1, u) == [line |-> l1, carry |-> u]

\* One pass of the inner loop body: carry is unterminated_sequences.
Repaired(l1, u) == [line |-> IF Len(u) > 0 THEN l1 \o ResetSeq ELSE l1, carry |-> u]

\* The pass without lines[i] = unterminated_sequences + lines[i]
RepairLineAlone(line, carry) == Repaired(line, Unterminated(line, 1))

RepairLine(line, carry) == Repaired(carry \o line, Unterminated(carry \o line, 1))

RECURSIVE RepairCell(_, _, _)
RepairCell(lines, i, carry) ==
    IF i > Len(lines) THEN [lines |-> lines, carry |-> carry]
    ELSE RepairCell([lines EXCEPT ![i] = RepairLine(lines[i], carry).line], i + 1,
                    RepairLine(lines[i], carry).carry)

RECURSIVE RepairCells(_, _, _)
\* The outer loop: unterminated_sequences is set once, before the first cell.
RepairCells(lines_2d, c, carry) ==
    IF c > Len(lines_2d) THEN lines_2d
    ELSE RepairCells([lines_2d EXCEPT ![c] = RepairCell(lines_2d[c], 1, carry).lines],
                     c + 1, RepairCell(lines_2d[c], 1, carry).carry)

ProcessLines(lines_2d) == RepairCells(lines_2d, 1, <<>>)

(***************************************************************************)
(* UniTable._splitit, _draw_line, _build_hline.  t is the table's state:   *)
(* a record with one field per attribute that drawing reads.               *)
(***************************************************************************)

ReduceEmpty == "TypeError: reduce() of empty sequence with no initial value"

LenOfList == "TypeError: expected string or bytes-like object"

OutOfRange == "IndexError: list index out of range"

RECURSIVE FirstErr(_, _)
\* The first non-empty err of a sequence of results, "" when there is none.
FirstErr(results, i) ==
    IF i > Len(results) THEN ""
    ELSE IF results[i].err # "" THEN results[i].err
    ELSE FirstErr(results, i + 1)

RECURSIVE MaxLen(_, _)
MaxLen(lists, i) == IF i > Len(lists) THEN 0 ELSE Max2(Len(lists[i]), MaxLen(lists, i + 1))

Blank(n) == [i \in 1..n |-> <<>>]

\* The vertical alignment of one wrapped cell.
VAlignCell(cell, valign, max_cell_lines) ==
    LET missing == max_cell_lines - Len(cell)
    IN  IF valign = "b" THEN Blank(missing) \o cell ELSE cell \o Blank(missing)

\* The cells of the line vertically aligned: cells past the valign array
\* are left as wrapped.
VAlignCells(line_wrapped, valign, max_cell_lines) ==
    [k \in 1..Len(line_wrapped) |->
        IF k <= Len(valign)
        THEN VAlignCell(line_wrapped[k], valign[k], max_cell_lines)
        ELSE line_wrapped[k]]

\* for cell, valign in zip(line_wrapped, self._valign)
SplitAligned(line_wrapped, valign) ==
    IF \E k \in 1..Min2(Len(line_wrapped), Len(valign)) : valign[k] = "m"
    THEN [err |-> LenOfList, cells |-> <<>>]
    ELSE [err |-> "",
          cells |-> ProcessLines(VAlignCells(line_wrapped, valign,
                                             MaxLen(line_wrapped, 1)))]

SplitWrapped(wrapped, valign, isheader) ==
    IF FirstErr(wrapped, 1) # "" THEN [err |-> FirstErr(wrapped, 1), cells |-> <<>>]
    ELSE IF Len(wrapped) = 0 THEN [err |-> ReduceEmpty, cells |-> <<>>]
    ELSE SplitAligned([k \in 1..Len(wrapped) |-> wrapped[k].lines],
                      IF isheader THEN [k \in 1..Len(valign) |-> "t"] ELSE valign)

\* for cell, width in zip(line, self._width)
WrappedCells(line, width) ==
    [k \in 1..Min2(Len(line), Len(width)) |-> WrapCell(line[k], width[k])]

SplitIt(line, t, isheader) ==
    SplitWrapped(WrappedCells(line, t.width), t.valign, isheader)

BORDER == 1

HEADER == 2

HLINES == 4

VLINES == 8

\* self._deco & bit > 0
HasBit(deco, bit) == (deco \div bit) % 2 = 1

has_vlines(t) == HasBit(t.deco, VLINES)

has_hlines(t) == HasBit(t.deco, HLINES)

Spaces(n) == Rep(<<" ">>, n)

\* fill spaces around the cell line
Padded(cell_line, fill, align) ==
    IF align = "r" THEN Spaces(fill) \o cell_line
    ELSE IF align = "c"
         THEN Spaces(fill \div 2) \o cell_line
              \o Spaces(IF fill > 0 THEN (fill \div 2) + (fill % 2) ELSE 0)
    ELSE cell_line \o Spaces(fill)

\* One aligned cell line of _draw_line.
AlignText(cell_line, width, align) ==
    Padded(cell_line, width - VisLen(cell_line), align)

\* What _draw_line writes between two cells.
CellSep(t) ==
    Spaces(t.pad) \o (IF has_vlines(t) THEN t.chars.ns ELSE <<" ">>) \o Spaces(t.pad)

\* The i-th physical line of a row of n aligned cells.
PhysLine(cells, n, i, align, t) ==
    (IF t.has_border THEN t.chars.ns \o Spaces(t.pad) ELSE <<>>)
    \o Flatten([k \in 1..n |->
                   AlignText(cells[k][i], t.width[k], align[k])
                   \o (IF k < Len(cells) THEN CellSep(t) ELSE <<>>)])
    \o (IF t.has_border THEN Spaces(t.pad) \o t.chars.ns ELSE <<>>)

\* for cell, width, align in zip(line, self._width, self._align), and the
\* header's self._header_align[length - 1]
DrawCells(cells, n, isheader, t) ==
    IF \/ \E k \in 1..n : Len(cells[k]) < Len(cells[1])
       \/ isheader /\ n > Len(t.header_align)
    THEN [err |-> OutOfRange, lines |-> <<>>]
    ELSE [err |-> "",
          lines |-> [i \in 1..Len(cells[1]) |->
                        PhysLine(cells, n, i,
                                 IF isheader THEN t.header_align ELSE t.align, t)]]

DrawSplit(sp, isheader, t) ==
    IF sp.err # "" THEN [err |-> sp.err, lines |-> <<>>]
    ELSE DrawCells(sp.cells, Min2(Len(sp.cells), Len(t.align)), isheader, t)

DrawLine(line, isheader, t) == DrawSplit(SplitIt(line, t, isheader), isheader, t)

TOP == 0

MIDDLE == 1

BOTTOM == 2

\* The physical lines _build_hline adds to the output: none for style "none".
BuildHline(t, is_header, location) ==
    LET c == t.chars
        horiz_char == IF is_header THEN c.hew ELSE c.ew
        left == IF location = TOP THEN c.se
                ELSE IF location = MIDDLE THEN (IF is_header THEN c.hnse ELSE c.nse)
                ELSE c.ne
        mid == IF location = TOP THEN c.sew
               ELSE IF location = MIDDLE THEN (IF is_header THEN c.hnsew ELSE c.nsew)
               ELSE c.new
        right == IF location = TOP THEN c.sw
                 ELSE IF location = MIDDLE THEN (IF is_header THEN c.hnsw ELSE c.nsw)
                 ELSE c.nw
        cell_sep == Rep(horiz_char, t.pad)
                    \o (IF has_vlines(t) THEN mid ELSE horiz_char)
                    \o Rep(horiz_char, t.pad)
        hline == Join(cell_sep, [k \in 1..Len(t.width) |-> Rep(horiz_char, t.width[k])])
    IN  IF t.style = "none" THEN <<>>
        ELSE IF t.has_border
             THEN << left \o Rep(horiz_char, t.pad) \o hline
                     \o Rep(horiz_char, t.pad) \o right >>
             ELSE << hline >>

(***************************************************************************)
(* CellFormatter: UniTable._str and the _fmt_* class methods.  A raw value *)
(* is modelled by the text of its str(); a float by its exact decimal      *)
(* value mant / 10^scale, which is what float() yields on the short        *)
(* numerals the model uses (at most nine digits, so that every integer     *)
(* computed below fits the checker's integers).                            *)
(***************************************************************************)

Digits == Chars("0123456789")

DigitVal(c) == CHOOSE d \in 0..9 : SubSeq("0123456789", d + 1, d + 1) = c

RECURSIVE Pow10(_)
Pow10(k) == IF k <= 0 THEN 1 ELSE 10 * Pow10(k - 1)

RECURSIVE DigitsVal(_, _)
\* The number written by the digits ds, after the accumulated value acc.
DigitsVal(ds, acc) ==
    IF Len(ds) = 0 THEN acc ELSE DigitsVal(Tail(ds), 10 * acc + DigitVal(ds[1]))

RECURSIVE NatText(_)
\* str(n) for n >= 0
NatText(n) ==
    IF n < 10 THEN <<SubSeq("0123456789", n + 1, n + 1)>>
    ELSE NatText(n \div 10) \o <<SubSeq("0123456789", (n % 10) + 1, (n % 10) + 1)>>

\* s.strip()
Strip(s) ==
    LET a == SkipClass(s, 1, Whitespace)
        b == IF a > Len(s) THEN a - 1
             ELSE CHOOSE j \in a..Len(s) :
                      /\ s[j] \notin Whitespace
                      /\ \A m \in (j + 1)..Len(s) : s[m] \in Whitespace
    IN  SubSeq(s, a, b)

AllDigits(s) == \A i \in 1..Len(s) : s[i] \in Digits

\* s.lower()
Lower(s) ==
    [i \in 1..Len(s) |->
        IF s[i] \in Chars("ABCDEFGHIJKLMNOPQRSTUVWXYZ")
        THEN LET k == CHOOSE k \in 1..26 : SubSeq("ABCDEFGHIJKLMNOPQRSTUVWXYZ", k, k) = s[i]
             IN  SubSeq("abcdefghijklmnopqrstuvwxyz", k, k)
        ELSE s[i]]

NotFloat == [kind |-> "fail", neg |-> FALSE, mant |-> 0, scale |-> 0]

\* The value m / 10^sc with a scale that is not negative.
Scaled(neg, m, sc) ==
    IF sc >= 0
    THEN [kind |-> "num", neg |-> neg, mant |-> m, scale |-> sc]
    ELSE [kind |-> "num", neg |-> neg, mant |-> m * Pow10(0 - sc), scale |-> 0]

\* The numeral with integer part ip, fraction fp and exponent digits edigits.
ParseDigits(neg, ip, fp, hasexp, eneg, edigits) ==
    IF /\ AllDigits(ip) /\ AllDigits(fp) /\ Len(ip) + Len(fp) > 0
       /\ (~hasexp \/ (AllDigits(edigits) /\ Len(edigits) > 0))
    THEN Scaled(neg, DigitsVal(ip \o fp, 0),
                Len(fp) - (IF ~hasexp THEN 0
                           ELSE IF eneg THEN 0 - DigitsVal(edigits, 0)
                           ELSE DigitsVal(edigits, 0)))
    ELSE NotFloat

\* The mantissa mpart split at its point, at index dot (0: none).
ParseAtDot(neg, mpart, dot, hasexp, eneg, edigits) ==
    ParseDigits(neg,
                IF dot = 0 THEN mpart ELSE SubSeq(mpart, 1, dot - 1),
                IF dot = 0 THEN <<>> ELSE SubSeq(mpart, dot + 1, Len(mpart)),
                hasexp, eneg, edigits)

ParseExponent(neg, mpart, hasexp, epart) ==
    ParseAtDot(neg, mpart, IndexOf(mpart, "."), hasexp,
               Len(epart) > 0 /\ epart[1] = "-",
               IF Len(epart) > 0 /\ epart[1] \in {"+", "-"} THEN Tail(epart) ELSE epart)

\* The numeral body split at its "e", at index epos (0: none).
ParseAtE(neg, body, epos) ==
    ParseExponent(neg,
                  IF epos = 0 THEN body ELSE SubSeq(body, 1, epos - 1),
                  epos # 0,
                  IF epos = 0 THEN <<>> ELSE SubSeq(body, epos + 1, Len(body)))

ParseBody(neg, body) ==
    IF body \in {S("inf"), S("infinity")}
    THEN [kind |-> "inf", neg |-> neg, mant |-> 0, scale |-> 0]
    ELSE IF body = S("nan")
    THEN [kind |-> "nan", neg |-> neg, mant |-> 0, scale |-> 0]
    ELSE ParseAtE(neg, body, IndexOf(body, "e"))

ParseSigned(s) ==
    ParseBody(Len(s) > 0 /\ s[1] = "-",
              Lower(IF Len(s) > 0 /\ s[1] \in {"+", "-"} THEN Tail(s) ELSE s))

\* float(x) on a str: kind "num" (value mant / 10^scale, negated if neg),
\* "inf", "nan", or "fail" when float() raises ValueError.
ParseFloat(x) == ParseSigned(Strip(x))

\* UniTable._to_float: "fail" stands for raising FallbackToText.
ToFloat(x) == ParseFloat(x)

\* num / den rounded to the nearest integer, ties to the even one.
RoundHalfEven(num, den) ==
    LET q == num \div den
        r == num % den
    IN  IF 2 * r > den \/ (2 * r = den /\ q % 2 = 1) THEN q + 1 ELSE q

\* round(f) for a "num" f, as a signed integer.
RoundFloat(f) ==
    IF f.neg THEN 0 - RoundHalfEven(f.mant, Pow10(f.scale))
    ELSE RoundHalfEven(f.mant, Pow10(f.scale))

\* str(n) for an integer n
IntText(n) == IF n < 0 THEN <<"-">> \o NatText(0 - n) ELSE NatText(n)

RECURSIVE Group3(_)
\* The digits of n >= 0 with a comma between groups of three.
Group3(n) ==
    IF n < 1000 THEN NatText(n)
    ELSE LET low == NatText(n % 1000)
         IN  Group3(n \div 1000) \o <<",">> \o Rep(<<"0">>, 3 - Len(low)) \o low

Fallback == "FallbackToText"

IntOfInf == "OverflowError: cannot convert float infinity to integer"

IntOfNaN == "ValueError: cannot convert float NaN to integer"

\* int(round(f)) as the text to_text writes, or the exception int() raises
IntOf(f, text) ==
    IF f.kind = "fail" THEN [err |-> Fallback, text |-> <<>>]
    ELSE IF f.kind = "inf" THEN [err |-> IntOfInf, text |-> <<>>]
    ELSE IF f.kind = "nan" THEN [err |-> IntOfNaN, text |-> <<>>]
    ELSE [err |-> "", text |-> text]

FmtIntOf(f) == IntOf(f, IntText(RoundFloat(f)))

\* _fmt_int: str(int(round(_to_float(x))))
FmtInt(x) == FmtIntOf(ToFloat(x))

\* f"{n:,d}"
CommaText(n) == IF n < 0 THEN <<"-">> \o Group3(0 - n) ELSE Group3(n)

\* _fmt_comma_int: f"{int(round(_to_float(x))):,d}"
FmtCommaInt(x) == IntOf(ToFloat(x), CommaText(RoundFloat(ToFloat(x))))

SignText(f) == IF f.neg THEN <<"-">> ELSE <<>>

\* '%.*f' % (n, f) and '%.*e' % (n, f) for inf and nan
NonFinite(f) == IF f.kind = "inf" THEN SignText(f) \o S("inf") ELSE S("nan")

\* The fraction digits frac on n places.
ZeroFill(frac, n) == Rep(<<"0">>, n - Len(frac)) \o frac

\* The digits of scaled = round(|f| * 10^n) with the point n places from the end.
FixedText(f, scaled, n) ==
    SignText(f) \o NatText(scaled \div Pow10(n))
    \o (IF n > 0 THEN <<".">> \o ZeroFill(NatText(scaled % Pow10(n)), n) ELSE <<>>)

FmtFloatOf(f, n) ==
    IF f.kind = "fail" THEN [err |-> Fallback, text |-> <<>>]
    ELSE IF f.kind # "num" THEN [err |-> "", text |-> NonFinite(f)]
    ELSE [err |-> "",
          text |-> FixedText(f,
                             IF f.scale > n
                             THEN RoundHalfEven(f.mant, Pow10(f.scale - n))
                             ELSE f.mant * Pow10(n - f.scale),
                             n)]

\* _fmt_float: '%.*f' % (n, _to_float(x))
FmtFloat(x, n) == FmtFloatOf(ToFloat(x), n)

\* The exponent: a sign and at least two digits.
ExpNat(ea) == (IF ea < 10 THEN <<"0">> ELSE <<>>) \o NatText(ea)

\* The n + 1 significant digits ds and the decimal exponent e10.
ExpText(f, ds, e10, n) ==
    SignText(f) \o <<ds[1]>>
    \o (IF n > 0 THEN <<".">> \o Tail(ds) ELSE <<>>)
    \o <<"e", IF e10 < 0 THEN "-" ELSE "+">>
    \o ExpNat(IF e10 < 0 THEN 0 - e10 ELSE e10)

\* q0 is the mantissa rounded to n + 1 digits: rounding may carry into one
\* digit more.
ExpRounded(f, nd, q0, n) ==
    IF q0 = Pow10(n + 1)
    THEN ExpText(f, NatText(Pow10(n)), (nd - 1) - f.scale + 1, n)
    ELSE ExpText(f, NatText(q0), (nd - 1) - f.scale, n)

\* nd is the number of digits of the mantissa.
ExpDigits(f, nd, n) ==
    ExpRounded(f, nd,
               IF nd > n + 1
               THEN RoundHalfEven(f.mant, Pow10(nd - (n + 1)))
               ELSE f.mant * Pow10((n + 1) - nd),
               n)

FmtExpOf(f, n) ==
    IF f.kind = "fail" THEN [err |-> Fallback, text |-> <<>>]
    ELSE IF f.kind # "num" THEN [err |-> "", text |-> NonFinite(f)]
    ELSE IF f.mant = 0 THEN [err |-> "", text |-> ExpText(f, Rep(<<"0">>, n + 1), 0, n)]
    ELSE [err |-> "", text |-> ExpDigits(f, Len(NatText(f.mant)), n)]

\* _fmt_exp: '%.*e' % (n, _to_float(x))
FmtExp(x, n) == FmtExpOf(ToFloat(x), n)

\* _fmt_text: obj2unicode(x)
FmtText(x) == [err |-> "", text |-> x]

FmtAutoOf(f, x, n) ==
    IF f.kind = "fail" THEN [err |-> Fallback, text |-> <<>>]
    ELSE IF \/ f.kind = "inf"
            \/ /\ f.kind = "num"
               /\ \/ f.mant \div Pow10(f.scale) > Pow10(8)
                  \/ /\ f.mant \div Pow10(f.scale) = Pow10(8)
                     /\ f.mant % Pow10(f.scale) > 0
         THEN FmtExpOf(f, n)
    ELSE IF f.kind = "nan" THEN FmtText(x)
    ELSE IF f.mant % Pow10(f.scale) = 0 THEN FmtIntOf(f)
    ELSE FmtFloatOf(f, n)

\* _fmt_auto with fn = cls._fmt_text whatever the value
FmtAutoText(x, n) == FmtText(x)

\* _fmt_auto
FmtAuto(x, n) == FmtAutoOf(ToFloat(x), x, n)

UnknownDtype == "KeyError: dtype"

\* format_map[dtype](x, n=n)
FormatMap(dtype, x, n) ==
    IF dtype = "a" THEN FmtAuto(x, n)
    ELSE IF dtype = "i" THEN FmtInt(x)
    ELSE IF dtype = "I" THEN FmtCommaInt(x)
    ELSE IF dtype = "f" THEN FmtFloat(x, n)
    ELSE IF dtype = "e" THEN FmtExp(x, n)
    ELSE IF dtype = "t" THEN FmtText(x)
    ELSE [err |-> UnknownDtype, text |-> <<>>]

\* except FallbackToText: return self._fmt_text(x)
OrText(r, x) == IF r.err = Fallback THEN FmtText(x) ELSE r

\* UniTable._str(i, x) with self._dtype = dtypes and self._precision = n;
\* i is the 1-based column index.
Str(dtypes, n, i, x) ==
    IF i > Len(dtypes) THEN [err |-> OutOfRange, text |-> <<>>]
    ELSE OrText(FormatMap(dtypes[i], x, n), x)

(***************************************************************************)
(* The UniTable object: a record with one field per attribute.  row_size 0 *)
(* stands for both None and 0: the code only tests "not self._row_size"    *)
(* before it reads the value.  Every method is an operator from the object *)
(* and its arguments to the object after the call and the exception raised *)
(* ("" when the call returns).                                             *)
(***************************************************************************)

\* A str of glyphs: one glyph per character.
Glyphs(str) == [i \in 1..Len(str) |-> <<SubSeq(str, i, i)>>]

\* A str of glyphs given by the names of its code points.
U(names) == [i \in 1..Len(names) |-> <<names[i]>>]

NoGlyphs == [i \in 1..15 |-> <<>>]

STYLES ==
    [ascii  |-> Glyphs("-|+-"),
     ascii2 |-> Glyphs("-|+="),
     bold   |-> U(<<"U2501", "U2503", "U250F", "U2513", "U2517", "U251B", "U2523", "U252B",
                    "U2533", "U253B", "U254B", "U2501", "U2523", "U252B", "U254B">>),
     double |-> U(<<"U2550", "U2551", "U2554", "U2557", "U255A", "U255D", "U2560", "U2563",
                    "U2566", "U2569", "U256C", "U2550", "U2560", "U2563", "U256C">>),
     light2 |-> U(<<"U2500", "U2502", "U250C", "U2510", "U2514", "U2518", "U251C", "U2524",
                    "U252C", "U2534", "U253C", "U2550", "U255E", "U2561", "U256A">>),
     round  |-> U(<<"U2500", "U2502", "U256D", "U256E", "U2570", "U256F", "U251C", "U2524",
                    "U252C", "U2534", "U253C", "U2500", "U251C", "U2524", "U253C">>),
     round2 |-> U(<<"U2500", "U2502", "U256D", "U256E", "U2570", "U256F", "U251C", "U2524",
                    "U252C", "U2534", "U253C", "U2550", "U255E", "U2561", "U256A">>),
     light  |-> U(<<"U2500", "U2502", "U250C", "U2510", "U2514", "U2518", "U251C", "U2524",
                    "U252C", "U2534", "U253C", "U2500", "U251C", "U2524", "U253C">>),
     none   |-> NoGlyphs,
     none2  |-> NoGlyphs]

ArraySizeError == "ArraySizeError"

Ok(t) == [t |-> t, err |-> ""]

Raise(t, e) == [t |-> t, err |-> e]

\* UniTable._check_row_size
CheckRowSize(t, array) ==
    IF t.row_size = 0 THEN Ok([t EXCEPT !.row_size = Len(array)])
    ELSE IF t.row_size # Len(array) THEN Raise(t, ArraySizeError)
    ELSE Ok(t)

\* UniTable.reset, on the attributes __init__ has set before it calls reset
Reset(t) == [t EXCEPT !.row_size = 0, !.header = <<>>, !.rows = <<>>, !.style = "light"]

\* UniTable.set_max_width
SetMaxWidthOp(t, max_width) ==
    Ok([t EXCEPT !.max_width = IF max_width > 0 THEN max_width ELSE 0])

\* UniTable._set_table_lines
SetTableLines15(t, table_lines) ==
    IF Len(table_lines) # 15 THEN Raise(t, ArraySizeError)
    ELSE Ok([t EXCEPT !.chars =
                [ew |-> table_lines[1], ns |-> table_lines[2], se |-> table_lines[3],
                 sw |-> table_lines[4], ne |-> table_lines[5], nw |-> table_lines[6],
                 nse |-> table_lines[7], nsw |-> table_lines[8], sew |-> table_lines[9],
                 new |-> table_lines[10], nsew |-> table_lines[11],
                 hew |-> table_lines[12], hnse |-> table_lines[13],
                 hnsw |-> table_lines[14], hnsew |-> table_lines[15]]])

\* set_table_lines with the header glyph in the header junctions too
SetTableLinesHeader(t, table_lines) ==
    IF Len(table_lines) = 15 THEN SetTableLines15(t, table_lines)
    ELSE IF Len(table_lines) # 4 THEN Raise(t, ArraySizeError)
    ELSE SetTableLines15(t, <<table_lines[1], table_lines[2], table_lines[3],
                              table_lines[3], table_lines[3], table_lines[3],
                              table_lines[3], table_lines[3], table_lines[3],
                              table_lines[3], table_lines[3], table_lines[4],
                              table_lines[4], table_lines[4], table_lines[4]>>)

\* UniTable.set_table_lines
SetTableLinesOp(t, table_lines) ==
    IF Len(table_lines) = 15 THEN SetTableLines15(t, table_lines)
    ELSE IF Len(table_lines) # 4 THEN Raise(t, ArraySizeError)
    ELSE LET hor == table_lines[1]
             ver == table_lines[2]
             cor == table_lines[3]
             hea == table_lines[4]
         IN  SetTableLines15(t, <<hor, ver, cor, cor, cor, cor, cor, cor, cor, cor, cor,
                                  hea, cor, cor, cor>>)

UnknownStyle == "ValueError: style must be one of the known styles"

\* UniTable.set_style: self._style is assigned before the name is looked up.
SetStyleOp(t, style) ==
    IF style \in DOMAIN STYLES
    THEN SetTableLinesOp([t EXCEPT !.style = style], STYLES[style])
    ELSE Raise([t EXCEPT !.style = style], UnknownStyle)

\* UniTable.set_decorations
SetDecorationsOp(t, decorations) == Ok([t EXCEPT !.deco = decorations])

\* The has_border property setter
SetHasBorderOp(t, value) == Ok([t EXCEPT !.has_border = value])

\* The has_header property setter
SetHasHeaderOp(t, value) == Ok([t EXCEPT !.has_header = value])

\* UniTable.set_header_align
SetHeaderAlignOp(t, array) ==
    LET c == CheckRowSize(t, array)
    IN  IF c.err # "" THEN c ELSE Ok([c.t EXCEPT !.header_align = array])

\* UniTable.set_cols_align
SetColsAlignOp(t, array) ==
    LET c == CheckRowSize(t, array)
    IN  IF c.err # "" THEN c ELSE Ok([c.t EXCEPT !.align = array])

\* UniTable.set_cols_valign
SetColsValignOp(t, array) ==
    LET c == CheckRowSize(t, array)
    IN  IF c.err # "" THEN c ELSE Ok([c.t EXCEPT !.valign = array])

\* UniTable.set_cols_dtype
SetColsDtypeOp(t, array) ==
    LET c == CheckRowSize(t, array)
    IN  IF c.err # "" THEN c ELSE Ok([c.t EXCEPT !.dtype = array])

NotPositive == "ValueError: Values less than or equal to zero not allowed"

\* UniTable.set_cols_width, for an array of integers
SetColsWidthOp(t, array) ==
    LET c == CheckRowSize(t, array)
    IN  IF c.err # "" THEN c
        ELSE IF Len(array) = 0 THEN Raise(c.t, ReduceEmpty)
        ELSE IF \E i \in 1..Len(array) : array[i] <= 0 THEN Raise(c.t, NotPositive)
        ELSE Ok([c.t EXCEPT !.width = array])

BadPrecision == "ValueError: width must be an integer greater then 0"

\* UniTable.set_precision
SetPrecisionOp(t, width) ==
    IF width < 0 THEN Raise(t, BadPrecision) ELSE Ok([t EXCEPT !.precision = width])

BadPadding == "ValueError: padding must be an integer greater then 0"

\* set_padding storing whatever amount it is given
SetPaddingAny(t, amount) == Ok([t EXCEPT !.pad = amount])

\* UniTable.set_padding
SetPaddingOp(t, amount) ==
    IF amount < 0 THEN Raise(t, BadPadding) ELSE Ok([t EXCEPT !.pad = amount])

\* UniTable.header
HeaderOp(t, array) ==
    LET c == CheckRowSize(t, array)
    IN  IF c.err # "" THEN c ELSE Ok([c.t EXCEPT !.header = array])

\* The cells formatted by _str are appended as one row, unless _str raised.
StoreCells(t1, cells) ==
    IF FirstErr(cells, 1) # "" THEN Raise(t1, FirstErr(cells, 1))
    ELSE Ok([t1 EXCEPT !.rows = Append(@, [i \in 1..Len(cells) |-> cells[i].text])])

\* for i, x in enumerate(array): cells.append(self._str(i, x))
AddFormatted(t1, array) ==
    StoreCells(t1, [i \in 1..Len(array) |-> Str(t1.dtype, t1.precision, i, array[i])])

\* if not hasattr(self, "_dtype"): self._dtype = ["a"] * self._row_size
WithDtype(t) ==
    IF t.dtype = NoAttr THEN [t EXCEPT !.dtype = [i \in 1..t.row_size |-> "a"]] ELSE t

AddChecked(c, array) == IF c.err # "" THEN c ELSE AddFormatted(WithDtype(c.t), array)

\* UniTable.add_row
AddRowOp(t, array) == AddChecked(CheckRowSize(t, array), array)

RECURSIVE AddEach(_, _, _)
\* for row in rows: self.add_row(row), after the calls so far returned r
AddEach(r, rws, i) ==
    IF i > Len(rws) \/ r.err # "" THEN r
    ELSE AddEach(AddRowOp(r.t, rws[i]), rws, i + 1)

\* UniTable.add_rows, for a list of rows
AddRowsOp(t, rws, hdr) ==
    AddEach(IF ~hdr THEN Ok(t)
            ELSE IF Len(rws) = 0 THEN Raise(t, OutOfRange)
            ELSE HeaderOp(t, rws[1]),
            IF hdr /\ Len(rws) > 0 THEN Tail(rws) ELSE rws, 1)

\* UniTable.set_rows
SetRowsOp(t, rws, hdr) == AddRowsOp([t EXCEPT !.rows = <<>>], rws, hdr)

(***************************************************************************)
(* TableRenderer: UniTable.draw.  The output is kept both as the string    *)
(* returned and as the segments that were appended to it, in order: each   *)
(* segment is the kind of line (top, header, hsep, row, mid, bottom) and   *)
(* the physical lines it added; a call that adds "" adds no segment.       *)
(***************************************************************************)

\* _check_align overwriting an array that is already there with "l"
CheckAlignAgain(cur, row_size, dflt) ==
    IF cur = NoAttr THEN [i \in 1..row_size |-> dflt] ELSE [i \in 1..row_size |-> "l"]

\* UniTable._check_align, for one of the three alignment attributes
CheckAlign(cur, row_size, dflt) ==
    IF cur = NoAttr THEN [i \in 1..row_size |-> dflt] ELSE cur

Seg(kind, lines) == IF Len(lines) = 0 THEN <<>> ELSE <<[kind |-> kind, lines |-> lines]>>

RECURSIVE LinesText(_, _)
\* Every physical line followed by "\n"
LinesText(lines, i) ==
    IF i > Len(lines) THEN <<>> ELSE lines[i] \o <<NL>> \o LinesText(lines, i + 1)

RECURSIVE SegsText(_, _)
SegsText(segs, i) ==
    IF i > Len(segs) THEN <<>>
    ELSE LinesText(segs[i].lines, 1) \o SegsText(segs, i + 1)

\* return out, the trailing newline kept
DropNothing(out) == out

\* out[:-1]
DropLast(out) == SubSeq(out, 1, Len(out) - 1)

\* The separator with num <= length: one after the last row as well
RowSeparatorAfterEach(t, num) ==
    IF has_hlines(t) /\ num <= Len(t.rows) THEN Seg("mid", BuildHline(t, FALSE, MIDDLE))
    ELSE <<>>

\* if self.has_hlines() and num < length: out += self._hline(location=MIDDLE)
RowSeparator(t, num) ==
    IF has_hlines(t) /\ num < Len(t.rows) THEN Seg("mid", BuildHline(t, FALSE, MIDDLE))
    ELSE <<>>

\* The row drawn as d, its separator, and the rows after it drawn as more.
RowThen(d, sepr, more) ==
    IF d.err # "" THEN [err |-> d.err, segs |-> <<>>]
    ELSE IF more.err # "" THEN more
    ELSE [err |-> "", segs |-> Seg("row", d.lines) \o sepr \o more.segs]

RECURSIVE DrawRows(_, _)
\* The loop over self._rows in draw; num is the 1-based row number.
DrawRows(t, num) ==
    IF num > Len(t.rows) THEN [err |-> "", segs |-> <<>>]
    ELSE RowThen(DrawLine(t.rows[num], FALSE, t), RowSeparator(t, num),
                 DrawRows(t, num + 1))

Returned(t, kind, out, segs) == [t |-> t, err |-> "", kind |-> kind, out |-> out, segs |-> segs]

Raised(t, e) == [t |-> t, err |-> e, kind |-> "raise", out |-> <<>>, segs |-> <<>>]

\* if self.has_border: out += self._hline(location=TOP)
TopHline(t) == IF t.has_border THEN Seg("top", BuildHline(t, FALSE, TOP)) ELSE <<>>

\* if self.has_header: out += self._hline_header(location=MIDDLE)
HeaderHline(t) ==
    IF Len(t.header) > 0 /\ t.has_header THEN Seg("hsep", BuildHline(t, TRUE, MIDDLE))
    ELSE <<>>

\* if self.has_border: out += self._hline(location=BOTTOM)
BottomHline(t) == IF t.has_border THEN Seg("bottom", BuildHline(t, FALSE, BOTTOM)) ELSE <<>>

\* draw storing each cell as its first line repaired
DrawOutRepaired(t, segs) ==
    Returned([t EXCEPT !.rows = [r \in 1..Len(t.rows) |->
                                    [k \in 1..Len(t.rows[r]) |->
                                        RepairLine(t.rows[r][k], <<>>).line]]],
             "str", DropLast(SegsText(segs, 1)), segs)

\* return out[:-1]
DrawOut(t, segs) == Returned(t, "str", DropLast(SegsText(segs, 1)), segs)

\* The header drawn as hd and the rows as body
DrawParts(t, hd, body) ==
    IF hd.err # "" THEN Raised(t, hd.err)
    ELSE IF body.err # "" THEN Raised(t, body.err)
    ELSE DrawOut(t, TopHline(t) \o Seg("header", hd.lines) \o HeaderHline(t)
                    \o body.segs \o BottomHline(t))

\* draw, once the widths and the alignments are stored
DrawTable(t) ==
    DrawParts(t,
              IF Len(t.header) > 0 THEN DrawLine(t.header, TRUE, t)
              ELSE [err |-> "", lines |-> <<>>],
              DrawRows(t, 1))

\* self._compute_cols_width() returned cw; self._check_align()
DrawWith(t, cw) ==
    IF cw.err # "" THEN Raised(t, cw.err)
    ELSE DrawTable([t EXCEPT !.width = cw.width,
                             !.header_align = CheckAlign(@, t.row_size, "c"),
                             !.align = CheckAlign(@, t.row_size, "l"),
                             !.valign = CheckAlign(@, t.row_size, "t")])

\* UniTable.draw: kind "none" when it returns None, "str" when it returns out.
DrawOp(t) ==
    IF Len(t.header) = 0 /\ Len(t.rows) = 0 THEN Returned(t, "none", <<>>, <<>>)
    ELSE DrawWith(t, ComputeColsWidth(t.width, t.header, t.rows, t.max_width,
                                      t.has_border))

\* The rows argument of __init__ left at None.
NoRows == << << <<"None">> >> >>

\* The attributes __init__ assigns before it calls reset()
InitAttributes ==
    [has_border |-> TRUE, has_header |-> TRUE, row_size |-> 0,
     header |-> <<>>, rows |-> <<>>, style |-> "", precision |-> 3,
     dtype |-> NoAttr, width |-> NoWidth, header_align |-> NoAttr,
     align |-> NoAttr, valign |-> NoAttr, max_width |-> 0,
     deco |-> 0, pad |-> 0,
     chars |-> [ew |-> <<>>, ns |-> <<>>, se |-> <<>>, sw |-> <<>>,
                ne |-> <<>>, nw |-> <<>>, nse |-> <<>>, nsw |-> <<>>,
                sew |-> <<>>, new |-> <<>>, nsew |-> <<>>, hew |-> <<>>,
                hnse |-> <<>>, hnsw |-> <<>>, hnsew |-> <<>>]]

\* self.set_padding(padding), after set_style returned r3
NewStyled(r3, padding) == IF r3.err # "" THEN r3 ELSE SetPaddingOp(r3.t, padding)

\* self.set_max_width, self._deco = VLINES | HLINES | BORDER | HEADER and
\* self.set_style, after add_rows returned r1
NewFilled(r1, max_width, style, padding) ==
    IF r1.err # "" THEN r1
    ELSE NewStyled(SetStyleOp([SetMaxWidthOp(r1.t, max_width).t
                                  EXCEPT !.deco = VLINES + HLINES + BORDER + HEADER],
                              style),
                   padding)

\* UniTable.__init__(rows, max_width, style, padding), alignment left at None
New(rws, max_width, style, padding) ==
    NewFilled(IF rws = NoRows THEN Ok(Reset(InitAttributes))
              ELSE AddRowsOp(Reset(InitAttributes), rws, TRUE),
              max_width, style, padding)

(***************************************************************************)
(* The state machine: one UniTable object and the calls made on it.        *)
(*   tbl    the object                                                     *)
(*   calls  the number of calls made so far                                *)
(*   ret    the last call: its name, the exception it raised, and for      *)
(*          draw() what it returned                                        *)
(*   prev   the call before the last one                                   *)
(*   pre    the object as it was before the last call                      *)
(*   hist   what the calls so far did to the width vector: the vector      *)
(*          set_cols_width stored (fixed), whether a draw() has stored     *)
(*          one (drawn), whether the content changed after that (stale),   *)
(*          and whether the last draw() came after such a change (redraw)  *)
(*   loop   the local variables of _compute_cols_width while its           *)
(*          redistribution loop runs, step by step, in SpecLoop; idle      *)
(*          in the specifications that take draw() as one step             *)
(***************************************************************************)
VARIABLES tbl, calls, ret, prev, pre, hist, loop

vars == <<tbl, calls, ret, prev, pre, hist, loop>>

\* The number of calls in one run.
MaxCalls == 3

NoCall == [op |-> "new", err |-> "", kind |-> "self", out |-> <<>>, segs |-> <<>>]

NoHist == [fixed |-> NoWidth, drawn |-> FALSE, stale |-> FALSE, redraw |-> FALSE]

\* No redistribution loop is running.
NoLoop == [pc |-> "idle", maxi |-> <<>>, newmaxi |-> <<>>, i |-> 0, available_width |-> 0]

\* A call of a builder or a mutator: r is the result of its operator.
Call(name, r) ==
    /\ calls < MaxCalls
    /\ calls' = calls + 1
    /\ tbl' = r.t
    /\ ret' = [op |-> name, err |-> r.err,
               kind |-> IF r.err = "" THEN "self" ELSE "raise",
               out |-> <<>>, segs |-> <<>>]
    /\ prev' = ret
    /\ pre' = tbl
    /\ loop' = loop

\* A call that writes the header or the rows.
ContentCall(name, r) ==
    /\ Call(name, r)
    /\ hist' = [hist EXCEPT !.stale = @ \/ (hist.drawn /\ (r.t.header # tbl.header
                                                          \/ r.t.rows # tbl.rows))]

\* A call that writes neither the content nor the width vector.
ConfigCall(name, r) ==
    /\ Call(name, r)
    /\ hist' = hist

Header(array) == ContentCall("header", HeaderOp(tbl, array))

AddRow(array) == ContentCall("add_row", AddRowOp(tbl, array))

AddRows(rws, hdr) == ContentCall("add_rows", AddRowsOp(tbl, rws, hdr))

SetRows(rws, hdr) == ContentCall("set_rows", SetRowsOp(tbl, rws, hdr))

SetMaxWidth(w) == ConfigCall("set_max_width", SetMaxWidthOp(tbl, w))

SetStyle(style) == ConfigCall("set_style", SetStyleOp(tbl, style))

SetTableLines(table_lines) == ConfigCall("set_table_lines", SetTableLinesOp(tbl, table_lines))

SetDecorations(d) == ConfigCall("set_decorations", SetDecorationsOp(tbl, d))

SetHasBorder(b) == ConfigCall("has_border", SetHasBorderOp(tbl, b))

SetHasHeader(b) == ConfigCall("has_header", SetHasHeaderOp(tbl, b))

SetPadding(amount) == ConfigCall("set_padding", SetPaddingOp(tbl, amount))

SetPrecision(width) == ConfigCall("set_precision", SetPrecisionOp(tbl, width))

SetColsAlign(array) == ConfigCall("set_cols_align", SetColsAlignOp(tbl, array))

SetHeaderAlign(array) == ConfigCall("set_header_align", SetHeaderAlignOp(tbl, array))

SetColsDtype(array) == ConfigCall("set_cols_dtype", SetColsDtypeOp(tbl, array))

SetColsValign(array) == ConfigCall("set_cols_valign", SetColsValignOp(tbl, array))

ResetCall == ContentCall("reset", Ok(Reset(tbl)))

\* A call of set_cols_width: the vector it stores is remembered.
WidthCall(r, array) ==
    /\ Call("set_cols_width", r)
    /\ hist' = IF r.err = "" THEN [hist EXCEPT !.fixed = array] ELSE hist

SetColsWidth(array) == WidthCall(SetColsWidthOp(tbl, array), array)

\* A call of draw: r is the result of DrawOp.
DrawCall(r) ==
    /\ calls < MaxCalls
    /\ calls' = calls + 1
    /\ tbl' = r.t
    /\ ret' = [op |-> "draw", err |-> r.err, kind |-> r.kind, out |-> r.out,
               segs |-> r.segs]
    /\ prev' = ret
    /\ pre' = tbl
    /\ loop' = loop
    /\ hist' = [hist EXCEPT !.drawn = @ \/ r.t.width # NoWidth,
                            !.stale = @ /\ r.t.width = NoWidth,
                            !.redraw = hist.stale]

Draw == DrawCall(DrawOp(tbl))

\* The objects the constructor builds from the given arguments.
Built(tables, widths, styles, paddings) ==
    {r.t : r \in {c \in {New(rws, w, st, p) : rws \in tables, w \in widths,
                                              st \in styles, p \in paddings} :
                  c.err = ""}}

InitFrom(objects) ==
    /\ tbl \in objects
    /\ calls = 0
    /\ ret = NoCall
    /\ prev = NoCall
    /\ pre = tbl
    /\ hist = NoHist
    /\ loop = NoLoop

(***************************************************************************)
(* SpecShape: the builders and the per-column setters, on arrays of zero,  *)
(* one and two cells.                                                      *)
(***************************************************************************)

ShapeArrays == {<<>>, <<S("A")>>, <<S("A"), S("B")>>}

ShapeTables ==
    {<<>>,
     << <<>> >>,
     << <<S("A")>>, <<S("1")>> >>,
     << <<S("A"), S("B")>>, <<S("1"), S("2")>> >>,
     << <<S("A"), S("B")>>, <<S("1"), S("2")>>, <<S("3")>> >>,
     << <<S("A"), S("B")>>, <<S("1")>>, <<S("3"), S("4")>> >>}

ShapeAligns == {<<>>, <<"l">>, <<"l", "r">>}

ShapeValigns == {<<"t">>, <<"b", "t">>}

ShapeDtypes == {<<"t">>, <<"a", "i">>}

ShapeWidths == {<<>>, <<2>>, <<2, 0>>, <<2, 3>>}

InitShape ==
    InitFrom(Built({NoRows, << <<S("A"), S("B")>>, <<S("1"), S("2")>> >>, << <<S("A")>> >>},
                   {80}, {"light"}, {1}))

ShapeHeader == \E array \in ShapeArrays : Header(array)

ShapeAddRow == \E array \in ShapeArrays : AddRow(array)

ShapeAddRows == \E rws \in ShapeTables, hdr \in BOOLEAN : AddRows(rws, hdr)

ShapeSetRows == \E rws \in ShapeTables, hdr \in BOOLEAN : SetRows(rws, hdr)

ShapeSetColsAlign == \E array \in ShapeAligns : SetColsAlign(array)

ShapeSetHeaderAlign == \E array \in ShapeAligns : SetHeaderAlign(array)

ShapeSetColsValign == \E array \in ShapeValigns : SetColsValign(array)

ShapeSetColsDtype == \E array \in ShapeDtypes : SetColsDtype(array)

ShapeSetColsWidth == \E array \in ShapeWidths : SetColsWidth(array)

NextShape ==
    \/ ShapeHeader
    \/ ShapeAddRow
    \/ ShapeAddRows
    \/ ShapeSetRows
    \/ ShapeSetColsAlign
    \/ ShapeSetHeaderAlign
    \/ ShapeSetColsValign
    \/ ShapeSetColsDtype
    \/ ShapeSetColsWidth
    \/ ResetCall

SpecShape == InitShape /\ [][NextShape]_vars

(***************************************************************************)
(* SpecCache: content, width budget, fixed widths and draw(), on tables of *)
(* one and two columns whose cells are empty, narrow or wider than the     *)
(* budgets.                                                                *)
(***************************************************************************)

CacheArrays ==
    {<<S("A")>>, <<S("333 22")>>, <<S("A"), S("")>>, <<S("ab cd"), S("1")>>}

CacheTables ==
    {<< <<S("A")>>, <<S("333 22")>> >>,
     << <<S("A"), S("")>>, <<S("ab cd"), S("1")>> >>}

CacheMaxWidths == {0, 4, 8, 9, 80}

CacheWidths == {<<2>>, <<2, 3>>}

InitCache ==
    InitFrom(Built({NoRows, << <<S("A")>> >>} \cup CacheTables, {0, 8, 80}, {"light"}, {1}))

CacheHeader == \E array \in CacheArrays : Header(array)

CacheAddRow == \E array \in CacheArrays : AddRow(array)

CacheAddRows == \E rws \in CacheTables, hdr \in BOOLEAN : AddRows(rws, hdr)

CacheSetRows == \E rws \in CacheTables, hdr \in BOOLEAN : SetRows(rws, hdr)

CacheSetMaxWidth == \E w \in CacheMaxWidths : SetMaxWidth(w)

CacheSetColsWidth == \E array \in CacheWidths : SetColsWidth(array)

CacheSetHasBorder == \E b \in BOOLEAN : SetHasBorder(b)

NextCache ==
    \/ CacheHeader
    \/ CacheAddRow
    \/ CacheAddRows
    \/ CacheSetRows
    \/ CacheSetMaxWidth
    \/ CacheSetColsWidth
    \/ CacheSetHasBorder
    \/ Draw

SpecCache == InitCache /\ [][NextCache]_vars

(***************************************************************************)
(* SpecRender: styles, glyph lists, decoration flags, padding and draw(),  *)
(* on tables of two columns with and without a header.                     *)
(***************************************************************************)

RenderTables ==
    {<< <<S("A"), S("B")>>, <<S("1"), S("2")>> >>,
     << <<S("A"), S("B")>>, <<S("1"), S("2")>>, <<S("3"), S("4")>> >>}

RenderArrays == {<<S("3"), S("4")>>}

RenderStyles == {"ascii2", "none", "none2", "bogus"}

\* The 4-glyph list of Scenario A, and a list of the wrong length
DashGlyphs == Glyphs("-|+-")

RenderGlyphLists == {DashGlyphs, Glyphs("-|+")}

RenderDecorations ==
    {0, VLINES + HLINES + HEADER, VLINES + HLINES + BORDER, VLINES + BORDER + HEADER,
     HLINES + BORDER + HEADER, VLINES + HLINES + BORDER + HEADER}

RenderPaddings == {-1, 0, 2}

InitRender ==
    InitFrom(Built({NoRows} \cup RenderTables, {80}, {"light", "light2", "none"}, {1}))

RenderAddRow == \E array \in RenderArrays : AddRow(array)

RenderSetStyle == \E style \in RenderStyles : SetStyle(style)

RenderSetTableLines == \E table_lines \in RenderGlyphLists : SetTableLines(table_lines)

RenderSetDecorations == \E d \in RenderDecorations : SetDecorations(d)

RenderSetPadding == \E amount \in RenderPaddings : SetPadding(amount)

RenderSetHasBorder == \E b \in BOOLEAN : SetHasBorder(b)

RenderSetHasHeader == \E b \in BOOLEAN : SetHasHeader(b)

NextRender ==
    \/ RenderAddRow
    \/ RenderSetStyle
    \/ RenderSetTableLines
    \/ RenderSetDecorations
    \/ RenderSetPadding
    \/ RenderSetHasBorder
    \/ RenderSetHasHeader
    \/ Draw

SpecRender == InitRender /\ [][NextRender]_vars

(***************************************************************************)
(* Properties of the builders (SpecShape)                                  *)
(***************************************************************************)

\* The cell count of what an object stores: of its header when it has one,
\* else of its first row; -1 when it stores nothing.
StoredArity(t) ==
    IF Len(t.header) > 0 THEN Len(t.header)
    ELSE IF Len(t.rows) > 0 THEN Len(t.rows[1])
    ELSE -1

SameArity(t) ==
    /\ \A i, j \in 1..Len(t.rows) : Len(t.rows[i]) = Len(t.rows[j])
    /\ Len(t.header) > 0 => \A i \in 1..Len(t.rows) : Len(t.rows[i]) = Len(t.header)

\* C1: after any sequence of header(), add_row(), add_rows(), set_rows() and
\* per-column setter calls, every stored row and the header (if non-empty)
\* have the same number of cells, and a header() or add_row() call whose
\* cell count differs from the arity of what is already stored raises
\* ArraySizeError at that call (so: one that does not raise has that arity).
C1_ShapeInvariant ==
    /\ SameArity(tbl)
    /\ (ret.op = "header" /\ ret.err = "" /\ StoredArity(pre) >= 0)
          => Len(tbl.header) = StoredArity(pre)
    /\ (ret.op = "add_row" /\ ret.err = "" /\ StoredArity(pre) >= 0)
          => Len(tbl.rows[Len(tbl.rows)]) = StoredArity(pre)

\* C6: a call of header(), add_row(), add_rows() or set_rows() that raises
\* leaves the header and the stored rows exactly as they were before it.
C6_FailedCallStoresNothing ==
    (ret.op \in {"header", "add_row", "add_rows", "set_rows"} /\ ret.err # "")
       => (tbl.header = pre.header /\ tbl.rows = pre.rows)

(***************************************************************************)
(* Properties of the width vector (SpecCache)                              *)
(***************************************************************************)

\* What _compute_cols_width computes for the content and configuration of t
\* when no width vector is stored.
FreshWidths(t) == ComputeColsWidth(NoWidth, t.header, t.rows, t.max_width, t.has_border)

\* C2: if draw() has been called and then header(), add_row(), add_rows() or
\* set_rows() changed the content, the next draw() uses the width vector a
\* freshly built table with the same content and configuration would
\* compute (no width was fixed with set_cols_width).
C2_RedrawRecomputesWidths ==
    (ret.op = "draw" /\ hist.redraw /\ hist.fixed = NoWidth)
       => IF FreshWidths(pre).err # "" THEN ret.err = FreshWidths(pre).err
          ELSE tbl.width = FreshWidths(pre).width

\* The number of columns of the content and the overhead of its decoration
Columns(t) == Len(NaturalWidths(t.header, t.rows))

Overhead(t) == 3 * (Columns(t) - 1) + (IF t.has_border THEN 4 ELSE 0)

\* C4, as claimed: with a bounded max_width, draw() raises the
\* width-too-small error if and only if max_width < columns + overhead,
\* whatever the cell contents, fixed widths or earlier draw() calls.
C4_RaisesIffBelowMinimum ==
    (ret.op = "draw" /\ pre.max_width > 0)
       => (ret.err = TooLow <=> pre.max_width < Columns(pre) + Overhead(pre))

\* C4, amended: draw() raises the width-too-small error if and only if no
\* width vector is stored yet (none set by set_cols_width, none left by an
\* earlier draw()), max_width is bounded, the natural widths plus the
\* overhead exceed max_width, and max_width < columns + overhead; so it
\* never raises it when max_width >= columns + overhead.
C4_RaisesIffUnfitAndBelowMinimum ==
    ret.op = "draw"
       => (ret.err = TooLow <=>
              /\ pre.width = NoWidth
              /\ pre.max_width > 0
              /\ SumSeq(NaturalWidths(pre.header, pre.rows), 1) + Overhead(pre)
                    > pre.max_width
              /\ pre.max_width < Columns(pre) + Overhead(pre))

\* A draw() that raised the width-too-small error
C4_Witness == ret.op = "draw" /\ ret.err = TooLow /\ pre.width = NoWidth

\* C5: two draw() calls in a row, nothing called between them, return the
\* same string (or both return nothing, or both raise the same error).
C5_DrawTwiceSame ==
    (ret.op = "draw" /\ prev.op = "draw")
       => (ret.kind = prev.kind /\ ret.err = prev.err /\ ret.out = prev.out)

\* The first draw() on a new table stored the widths and the default
\* alignment arrays, the second returned a string.
C5_Witness ==
    /\ calls = 2
    /\ ret.op = "draw"
    /\ prev.op = "draw"
    /\ ret.kind = "str"
    /\ pre.width # NoWidth
    /\ pre.header_align # NoAttr
    /\ Len(ret.out) > 0

(***************************************************************************)
(* Properties of the rendering (SpecRender)                                *)
(***************************************************************************)

\* The last call was a draw() that returned a string.
Drew == ret.op = "draw" /\ ret.kind = "str"

\* The physical lines of the string draw() returned
OutLines == Split(ret.out, NL)

\* The segments of the given kinds, in the order draw() emitted them
SegsOf(kinds) == SelectSeq(ret.segs, LAMBDA g : g.kind \in kinds)

\* C3: every physical line of the string returned by draw() has the same
\* display width, for every style, decoration flags, padding and content.
C3_LinesSameWidth ==
    Drew => \A i, j \in 1..Len(OutLines) : VisLen(OutLines[i]) = VisLen(OutLines[j])

StartsWith(line, g) == Len(line) >= Len(g) /\ SubSeq(line, 1, Len(g)) = g

EndsWith(line, g) ==
    Len(line) >= Len(g) /\ SubSeq(line, Len(line) - Len(g) + 1, Len(line)) = g

\* C7: draw() emits the top border line, the bottom border line and the
\* left and right border glyphs on every row line exactly when the BORDER
\* bit is set in the flags last passed to set_decorations(); with the bit
\* clear the overhead used for the width allocation is 4 less.  (Stated for
\* the styles that draw lines: every style name but "none".)
C7_BorderFollowsFlag ==
    (Drew /\ pre.style # "none") =>
       LET b == HasBit(pre.deco, BORDER)
       IN  /\ (Len(SegsOf({"top"})) = 1) <=> b
           /\ (Len(SegsOf({"bottom"})) = 1) <=> b
           /\ Len(pre.chars.ns) > 0 =>
                 \A g \in {SegsOf({"header", "row"})[k] : k \in 1..Len(SegsOf({"header", "row"}))} :
                    \A n \in 1..Len(g.lines) :
                       (StartsWith(g.lines[n], pre.chars.ns)
                           /\ EndsWith(g.lines[n], pre.chars.ns)) <=> b
           /\ pre.width = NoWidth =>
                 tbl.width = FreshWidths([pre EXCEPT !.has_border = b]).width

\* The separator under the header, from the header glyphs of t
HeaderSeparator(t) ==
    LET h == t.chars.hew
        cell_sep == Rep(h, t.pad)
                    \o (IF HasBit(t.deco, VLINES) THEN t.chars.hnsew ELSE h)
                    \o Rep(h, t.pad)
        hline == Join(cell_sep, [i \in 1..Len(t.width) |-> Rep(h, t.width[i])])
    IN  IF t.has_border
        THEN t.chars.hnse \o Rep(h, t.pad) \o hline \o Rep(h, t.pad) \o t.chars.hnsw
        ELSE hline

\* C8: when a header exists, draw() emits a header separator line right
\* after the header row exactly when the HEADER bit is set in the
\* decoration flags, and that line is built from the header glyphs.  (Stated
\* for the styles that draw lines: every style name but "none".)
C8_HeaderSeparatorFollowsFlag ==
    (Drew /\ Len(pre.header) > 0 /\ pre.style # "none") =>
       /\ (\E k \in 1..(Len(ret.segs) - 1) :
              ret.segs[k].kind = "header" /\ ret.segs[k + 1].kind = "hsep")
             <=> HasBit(pre.deco, HEADER)
       /\ \A k \in 1..Len(ret.segs) :
             ret.segs[k].kind = "hsep" => ret.segs[k].lines = <<HeaderSeparator(tbl)>>

\* The data rows come out in insertion order, each as _draw_line renders it.
RowsInOrder ==
    /\ Len(SegsOf({"row"})) = Len(pre.rows)
    /\ \A k \in 1..Len(pre.rows) :
          SegsOf({"row"})[k].lines = DrawLine(pre.rows[k], FALSE, tbl).lines

\* Between every two consecutive data rows one separator line, none after
\* the last row.
SeparatedRows ==
    LET body == SegsOf({"row", "mid"})
    IN  /\ Len(body) = IF Len(pre.rows) = 0 THEN 0 ELSE 2 * Len(pre.rows) - 1
        /\ \A k \in 1..Len(body) :
              /\ body[k].kind = IF k % 2 = 1 THEN "row" ELSE "mid"
              /\ body[k].kind = "mid" => Len(body[k].lines) = 1

\* C9, as claimed: data rows are emitted in insertion order; with the HLINES
\* bit set and R data rows exactly R-1 separator lines are emitted, one
\* between each pair of consecutive rows and none after the last; with
\* HLINES clear no separator is emitted between data rows.
C9_RowSeparatorsFollowFlag ==
    Drew =>
       /\ RowsInOrder
       /\ IF HasBit(pre.deco, HLINES) THEN SeparatedRows ELSE Len(SegsOf({"mid"})) = 0

\* C9, amended: the same, when the style name is not "none"; when it is
\* "none" no separator is emitted whatever the flags.
C9_RowSeparatorsUnlessStyleNone ==
    Drew =>
       /\ RowsInOrder
       /\ IF HasBit(pre.deco, HLINES) /\ pre.style # "none" THEN SeparatedRows
          ELSE Len(SegsOf({"mid"})) = 0

\* Three data rows drawn with HLINES set in a style that has lines
C9_Witness ==
    /\ Drew
    /\ HasBit(pre.deco, HLINES)
    /\ pre.style # "none"
    /\ Len(pre.rows) = 3
    /\ Len(SegsOf({"mid"})) = 2

Unset(attr, dflt) == attr = NoAttr \/ attr = <<dflt, dflt>>

\* The table of Scenario A: the header and the row, the 4-glyph list given
\* to set_table_lines, padding 1, all decorations on, alignments left at
\* their defaults, everything else as the constructor leaves it.
ScenarioA(t) ==
    /\ t.header = <<S("A"), S("B")>>
    /\ t.rows = << <<S("1"), S("2")>> >>
    /\ t.chars = SetTableLinesOp(t, DashGlyphs).t.chars
    /\ t.pad = 1
    /\ t.deco = VLINES + HLINES + BORDER + HEADER
    /\ t.has_border
    /\ t.has_header
    /\ Unset(t.header_align, "c")
    /\ Unset(t.align, "l")
    /\ Unset(t.valign, "t")
    /\ t.style = "light"
    /\ t.max_width = 80

ScenarioAOutput ==
    S("+---+---+") \o <<NL>> \o S("| A | B |") \o <<NL>> \o S("+---+---+") \o <<NL>>
       \o S("| 1 | 2 |") \o <<NL>> \o S("+---+---+")

\* C10: Scenario A renders to exactly the five lines +---+---+, | A | B |,
\* +---+---+, | 1 | 2 |, +---+---+ joined by newlines, no trailing newline.
C10_ScenarioA ==
    (ret.op = "draw" /\ ScenarioA(pre)) => (ret.kind = "str" /\ ret.out = ScenarioAOutput)

C10_Witness == ret.op = "draw" /\ ScenarioA(pre) /\ pre.width = NoWidth /\ Len(ret.out) = 49

(***************************************************************************)
(* SpecConfig: the setters that validate their argument (padding,          *)
(* precision, fixed widths, style name, glyph list) and draw(), on a table *)
(* of two columns.                                                         *)
(***************************************************************************)

ConfigPaddings == {-1, 0, 2}

ConfigPrecisions == {-1, 0, 2}

ConfigWidths == {<<2, 0>>, <<-1, 4>>, <<2, 3>>}

ConfigStyles == {"ascii", "bogus"}

ConfigGlyphLists == {DashGlyphs, Glyphs("-|+"), Glyphs("-|+-=")}

InitConfig ==
    InitFrom(Built({NoRows, << <<S("A"), S("B")>>, <<S("1"), S("2")>> >>},
                   {80}, {"light", "none"}, {1}))

ConfigSetPadding == \E amount \in ConfigPaddings : SetPadding(amount)

ConfigSetPrecision == \E width \in ConfigPrecisions : SetPrecision(width)

ConfigSetColsWidth == \E array \in ConfigWidths : SetColsWidth(array)

ConfigSetStyle == \E style \in ConfigStyles : SetStyle(style)

ConfigSetTableLines == \E table_lines \in ConfigGlyphLists : SetTableLines(table_lines)

NextConfig ==
    \/ ConfigSetPadding
    \/ ConfigSetPrecision
    \/ ConfigSetColsWidth
    \/ ConfigSetStyle
    \/ ConfigSetTableLines
    \/ Draw

SpecConfig == InitConfig /\ [][NextConfig]_vars

(***************************************************************************)
(* Properties of the validating setters (SpecConfig)                       *)
(***************************************************************************)

\* The call raised and the padding, the precision and the fixed widths are
\* those of before the call.
RejectedConfig ==
    /\ ret'.err # ""
    /\ tbl'.pad = tbl.pad
    /\ tbl'.precision = tbl.precision
    /\ tbl'.width = tbl.width

\* set_precision(n) raises for every n < 0 and set_cols_width(w) raises when
\* an element of w is <= 0, and the configuration stays as it was.
RejectsPrecisionAndWidths ==
    /\ \A width \in ConfigPrecisions :
           (width < 0 /\ SetPrecision(width)) => RejectedConfig
    /\ \A array \in ConfigWidths :
           ((\E i \in 1..Len(array) : array[i] <= 0) /\ SetColsWidth(array))
              => RejectedConfig

\* C11, as claimed: set_padding(p) raises for every p <= 0, set_precision(n)
\* raises for every n < 0 and set_cols_width(w) raises when an element of w
\* is <= 0; after such a failure the padding, the precision and the widths
\* configured before are still in force.
C11_RejectsNonPositivePadding ==
    [][/\ \A amount \in ConfigPaddings :
             (amount <= 0 /\ SetPadding(amount)) => RejectedConfig
       /\ RejectsPrecisionAndWidths]_vars

\* C11, amended: the same with set_padding(p) raising for every p < 0 only:
\* set_padding(0) returns and stores a padding of 0.
C11_RejectsNegativePadding ==
    [][/\ \A amount \in ConfigPaddings :
             /\ (amount < 0 /\ SetPadding(amount)) => RejectedConfig
             /\ (amount = 0 /\ SetPadding(amount)) => (ret'.err = "" /\ tbl'.pad = 0)
       /\ RejectsPrecisionAndWidths]_vars

\* A set_cols_width with an element <= 0 has raised on an object with fixed
\* widths, a padding and a precision set by earlier calls.
C11_Witness ==
    /\ ret.op = "set_cols_width" /\ ret.err = NotPositive
    /\ prev.op = "set_cols_width" /\ prev.err = ""
    /\ tbl.width = pre.width /\ tbl.width # NoWidth

\* The call raised e, and the style name, the 15 glyph slots and what draw()
\* returns are those of before the call.
RejectedStyle(e) ==
    /\ ret'.err = e
    /\ tbl'.style = tbl.style
    /\ tbl'.chars = tbl.chars
    /\ DrawOp(tbl').kind = DrawOp(tbl).kind
    /\ DrawOp(tbl').out = DrawOp(tbl).out

\* C12: set_style() with a name that is not in the registry raises the
\* unknown-style error, set_table_lines() with a glyph list whose length is
\* neither 4 nor 15 raises the size error, and in both cases the style name
\* and the 15 glyph slots are unchanged, so that a draw() renders as it
\* would have before the failed call.
C12_FailedStyleChangesNothing ==
    [][/\ \A style \in ConfigStyles :
             (style \notin DOMAIN STYLES /\ SetStyle(style)) => RejectedStyle(UnknownStyle)
       /\ \A table_lines \in ConfigGlyphLists :
             (Len(table_lines) \notin {4, 15} /\ SetTableLines(table_lines))
                => RejectedStyle(ArraySizeError)]_vars

(***************************************************************************)
(* SpecFormat: the dtype policies, the precision and add_row() on a table  *)
(* of one column; a raw value is given by the text of its str().           *)
(***************************************************************************)

FormatValues ==
    {S("inf"), S("nan"), S("-Infinity"), S("abc"), S("None"), S("12.5"), S("1234567"),
     S("-7")}

FormatDtypes == {<<"a">>, <<"i">>, <<"I">>, <<"f">>, <<"e">>, <<"t">>}

FormatPrecisions == {0, 2}

InitFormat == InitFrom(Built({NoRows}, {80}, {"light"}, {1}))

FormatSetColsDtype == \E array \in FormatDtypes : SetColsDtype(array)

FormatSetPrecision == \E width \in FormatPrecisions : SetPrecision(width)

FormatAddRow == \E x \in FormatValues : AddRow(<<x>>)

NextFormat == FormatSetColsDtype \/ FormatSetPrecision \/ FormatAddRow

SpecFormat == InitFormat /\ [][NextFormat]_vars

(***************************************************************************)
(* Properties of the cell formatter (SpecFormat)                           *)
(***************************************************************************)

\* The policy of the one column is dtype, or auto when none was set.
HasDtype(t, dtype) ==
    IF t.dtype = NoAttr THEN dtype = "a" ELSE t.dtype[1] = dtype

\* Numeric handling of x fails under the policy of t: x is not a number, or
\* x is infinite or NaN and the policy is an integer one.
NotNumeric(t, x) ==
    \/ ToFloat(x).kind = "fail"
    \/ /\ ToFloat(x).kind \in {"inf", "nan"}
       /\ HasDtype(t, "i") \/ HasDtype(t, "I")

\* C13: under every built-in non-text dtype policy and for every raw value,
\* add_row() does not raise from formatting the cell, and a value whose
\* numeric handling fails (None, non-numeric text, NaN or infinity under the
\* integer policies) is stored as its text.
C13_FormattingNeverRaises ==
    [][\A x \in FormatValues :
          (AddRow(<<x>>) /\ ~HasDtype(tbl, "t"))
             => /\ ret'.err = ""
                /\ NotNumeric(tbl, x) => tbl'.rows[Len(tbl'.rows)] = <<x>>]_vars

(***************************************************************************)
(* Properties of fixed widths and of the natural widths (SpecCache)        *)
(***************************************************************************)

\* C14: after set_cols_width(w) has succeeded, every later draw() uses
\* exactly w as the width vector (the last w, when there were several):
\* neither the natural widths nor widths shrunk to fit max_width, whatever
\* content was added before or after it and whatever draw() calls came
\* before it.
C14_FixedWidthsAreUsed ==
    (ret.op = "draw" /\ ret.kind # "none" /\ hist.fixed # NoWidth)
        => /\ pre.width = hist.fixed
           /\ tbl.width = hist.fixed
           /\ ret.err # TooLow

\* A draw() right after a successful set_cols_width(w) returned a string
\* with w stored, w not being the natural widths of the content.
C14_Witness ==
    /\ ret.op = "draw" /\ ret.kind = "str"
    /\ prev.op = "set_cols_width" /\ prev.err = ""
    /\ tbl.width = hist.fixed
    /\ tbl.width # NaturalWidths(tbl.header, tbl.rows)

\* The largest element of a non-empty set of integers
SetMax(set) == CHOOSE m \in set : \A x \in set : x <= m

\* The intrinsic widths of the cells of column i: the header's cell, if
\* there is a header, and the cell of every row
ColumnCells(t, i) ==
    {LenCell(t.header[j]) : j \in {i} \cap 1..Len(t.header)}
        \cup {LenCell(t.rows[r][i]) : r \in {q \in 1..Len(t.rows) : i <= Len(t.rows[q])}}

ColumnCount(t) == SetMax({Len(t.header)} \cup {Len(t.rows[r]) : r \in 1..Len(t.rows)})

NaturalOf(t) == [i \in 1..ColumnCount(t) |-> SetMax(ColumnCells(t, i))]

\* max_width is unbounded, or the natural widths and the overhead fit in it
FitsBudget(t) ==
    \/ t.max_width = 0
    \/ SumSeq(NaturalOf(t), 1) + 3 * (ColumnCount(t) - 1) + (IF t.has_border THEN 4 ELSE 0)
          <= t.max_width

\* C20: when max_width is unbounded (0) or the sum of the natural widths
\* plus the overhead is at most max_width, the width vector that draw()
\* computes is the natural widths: for each column the largest intrinsic
\* width over the header's cell (if there is a header) and every row's cell
\* in the column.
C20_NaturalWidthsWhenTheyFit ==
    (ret.op = "draw" /\ ret.kind # "none" /\ pre.width = NoWidth /\ FitsBudget(pre))
        => (ret.err = "" /\ tbl.width = NaturalOf(pre))

\* draw() computed the widths of a table with a header and two rows under
\* a bounded max_width, and a column's widest cell is not in its last row.
C20_Witness ==
    /\ ret.op = "draw" /\ ret.kind = "str" /\ pre.width = NoWidth
    /\ pre.max_width > 0 /\ FitsBudget(pre)
    /\ Len(pre.header) > 0 /\ Len(pre.rows) >= 2
    /\ \E i \in 1..Len(tbl.width) : LenCell(pre.rows[Len(pre.rows)][i]) < tbl.width[i]
    /\ tbl.width = NaturalOf(pre)

(***************************************************************************)
(* SpecAnsi: rows of two cells with escape sequences, closed and not,      *)
(* on one line and on several, drawn at natural and at fixed widths.       *)
(***************************************************************************)

\* "\033[31m" and "\033[1m"
Red == <<ESC, "[", "3", "1", "m">>

Bold == <<ESC, "[", "1", "m">>

\* Red text of two words, left open
OpenCell == Red \o S("ab cd")

\* Red text closed after the first word
ClosedCell == Red \o S("ab") \o ResetSeq \o S(" cd")

\* Three lines: red opened on the first, bold on the second
OpenLines == Red \o <<"a", NL>> \o Bold \o <<"b", NL, "c">>

\* Three lines: red opened on the first and closed on the second
ClosedLines == Red \o <<"a", NL, "b">> \o ResetSeq \o <<NL, "c">>

AnsiArrays ==
    {<<OpenCell, S("xx yy")>>, <<S("x"), OpenLines>>, <<OpenLines, ClosedCell>>,
     <<ClosedLines, S("x")>>, <<ClosedCell, OpenCell>>}

AnsiWidths == {<<9, 9>>, <<12, 2>>}

AnsiValigns == {<<"t", "b">>, <<"b", "t">>, <<"m", "t">>}

InitAnsi == InitFrom(Built({NoRows}, {80}, {"light"}, {1}))

AnsiAddRow == \E array \in AnsiArrays : AddRow(array)

AnsiSetColsWidth == \E array \in AnsiWidths : SetColsWidth(array)

AnsiSetColsValign == \E array \in AnsiValigns : SetColsValign(array)

NextAnsi == AnsiAddRow \/ AnsiSetColsWidth \/ AnsiSetColsValign \/ Draw

SpecAnsi == InitAnsi /\ [][NextAnsi]_vars

(***************************************************************************)
(* Properties of draw() on cells with escape sequences (SpecAnsi)          *)
(***************************************************************************)

\* C15: draw() leaves the stored header and the stored rows, every cell
\* string of them, as they were before the call, whether it returns a
\* string or raises, also for cells that are wrapped or that contain
\* unterminated escape sequences.
C15_DrawKeepsContent ==
    ret.op = "draw" => (tbl.header = pre.header /\ tbl.rows = pre.rows)

\* A draw() has returned a string for a table with a cell that holds an
\* unterminated escape sequence and was wrapped onto several lines.
C15_Witness ==
    /\ ret.op = "draw" /\ ret.kind = "str"
    /\ \E r \in 1..Len(tbl.rows) : \E k \in 1..Len(tbl.rows[r]) :
          /\ Unterminated(tbl.rows[r][k], 1) # <<>>
          /\ IndexOf(tbl.rows[r][k], NL) = 0
          /\ Len(SplitIt(tbl.rows[r], tbl, FALSE).cells[k]) > 1

(***************************************************************************)
(* Properties of the ANSI repair (SpecAnsi)                                *)
(***************************************************************************)

\* An escape sequence ESC "[" parameters final-byte other than the reset
\* starts at index i of the line and no reset follows it on the line.
OpenAt(line, i) ==
    /\ line[i] = ESC /\ i + 1 <= Len(line) /\ line[i + 1] = "["
    /\ AnsiEscapeEnd(line, i) > 0
    /\ SubSeq(line, i, AnsiEscapeEnd(line, i) - 1) # ResetSeq
    /\ ~HasResetFrom(line, AnsiEscapeEnd(line, i))

StyleClosed(line) == \A i \in 1..Len(line) : ~OpenAt(line, i)

CellsClosed(cells) ==
    \A k \in 1..Len(cells) : \A j \in 1..Len(cells[k]) : StyleClosed(cells[k][j])

\* The physical lines of the row's cells before the repair: wrapped and
\* vertically aligned.
AlignedLines(lines, valign) == VAlignCells(lines, valign, MaxLen(lines, 1))

LinesOfCells(wrapped) == [k \in 1..Len(wrapped) |-> wrapped[k].lines]

WrappedLines(t, row) == AlignedLines(LinesOfCells(WrappedCells(row, t.width)), t.valign)

\* The physical lines of the row's cells after the repair
RepairedLines(t, row) == SplitIt(row, t, FALSE).cells

\* C17: after the repair no style is left open at the end of a physical
\* line of a cell: on every physical line that draw() made, every escape
\* sequence other than the reset is followed on that line by a reset.
C17_NoStyleLeftOpen ==
    (ret.op = "draw" /\ ret.kind = "str")
        => \A r \in 1..Len(tbl.rows) : CellsClosed(RepairedLines(tbl, tbl.rows[r]))

\* draw() returned a table in which a cell's wrapped line had an open style
\* and the reset was appended to it.
C17_Witness ==
    /\ ret.op = "draw" /\ ret.kind = "str"
    /\ \E r \in 1..Len(tbl.rows) : \E k \in 1..Len(WrappedLines(tbl, tbl.rows[r])) :
          \E j \in 1..Len(WrappedLines(tbl, tbl.rows[r])[k]) :
             /\ ~StyleClosed(WrappedLines(tbl, tbl.rows[r])[k][j])
             /\ RepairedLines(tbl, tbl.rows[r])[k][j]
                   = WrappedLines(tbl, tbl.rows[r])[k][j] \o ResetSeq

RECURSIVE OpenSeqs(_, _)
\* The escape sequences of the line from index i on that no reset follows
\* on the line, in their order.
OpenSeqs(line, i) ==
    IF i > Len(line) THEN <<>>
    ELSE IF OpenAt(line, i)
         THEN SubSeq(line, i, AnsiEscapeEnd(line, i) - 1)
                \o OpenSeqs(line, AnsiEscapeEnd(line, i))
         ELSE OpenSeqs(line, i + 1)

RECURSIVE CarryFollows(_, _, _, _)
\* From line j of a cell on, with the sequences in open pending: the
\* repaired line is the pending sequences and then the wrapped line (and
\* the reset, if one was appended), and what that line leaves open is
\* pending for the line after it.
CarryFollows(wrapped, repaired, j, open) ==
    \/ j > Len(wrapped)
    \/ /\ repaired[j] \in {open \o wrapped[j], open \o wrapped[j] \o ResetSeq}
       /\ CarryFollows(wrapped, repaired, j + 1, OpenSeqs(open \o wrapped[j], 1))

\* The lines of one cell, whatever was pending when its first line was
\* reached.
CellCarries(wrapped, repaired) ==
    /\ Len(repaired) = Len(wrapped)
    /\ Len(wrapped) > 0 =>
          \E n \in 0..Len(repaired[1]) :
              /\ SubSeq(repaired[1], 1, n) = OpenSeqs(SubSeq(repaired[1], 1, n), 1)
              /\ CarryFollows(wrapped, repaired, 1, SubSeq(repaired[1], 1, n))

\* C18: within one cell, when physical line k has escape sequences that no
\* reset closes on that line, the repaired line k+1 begins with exactly
\* those sequences in their order, and so on for each following line of
\* the cell until a line with a reset after them; a line whose styles are
\* all closed carries nothing to the next line.
C18_OpenStylesCarryToNextLine ==
    (ret.op = "draw" /\ ret.kind = "str")
        => \A r \in 1..Len(tbl.rows) : \A k \in 1..Len(RepairedLines(tbl, tbl.rows[r])) :
              CellCarries(WrappedLines(tbl, tbl.rows[r])[k],
                          RepairedLines(tbl, tbl.rows[r])[k])

\* draw() returned a table whose first cell has three lines: the first
\* leaves a style open, the second opens another, and the third begins with
\* both, in that order.
C18_Witness ==
    /\ ret.op = "draw" /\ ret.kind = "str"
    /\ \E r \in 1..Len(tbl.rows) :
          /\ Len(WrappedLines(tbl, tbl.rows[r])[1]) = 3
          /\ OpenSeqs(WrappedLines(tbl, tbl.rows[r])[1][1], 1) # <<>>
          /\ OpenSeqs(WrappedLines(tbl, tbl.rows[r])[1][2], 1) # <<>>
          /\ RepairedLines(tbl, tbl.rows[r])[1][3]
                = OpenSeqs(WrappedLines(tbl, tbl.rows[r])[1][1], 1)
                    \o OpenSeqs(WrappedLines(tbl, tbl.rows[r])[1][2], 1)
                    \o WrappedLines(tbl, tbl.rows[r])[1][3] \o ResetSeq

\* C19: the repair is per cell: nothing is pending at the first line of a
\* cell, so the repaired lines of a cell depend only on the cell's own
\* lines, and a style left open in one cell of a row adds no escape
\* sequence to a line of another cell of the row.
C19_RepairIsPerCell ==
    (ret.op = "draw" /\ ret.kind = "str")
        => \A r \in 1..Len(tbl.rows) : \A k \in 1..Len(RepairedLines(tbl, tbl.rows[r])) :
              /\ Len(RepairedLines(tbl, tbl.rows[r])[k])
                    = Len(WrappedLines(tbl, tbl.rows[r])[k])
              /\ CarryFollows(WrappedLines(tbl, tbl.rows[r])[k],
                              RepairedLines(tbl, tbl.rows[r])[k], 1, <<>>)

\* The physical lines of the row's cells as wrapped, before the vertical
\* alignment
CellLines(t, row) == LinesOfCells(WrappedCells(row, t.width))

\* Every logical line of the cell fits the width by its display width.
LogicalLinesFit(cell, width) ==
    \A n \in 1..Len(Split(cell, NL)) : VisLen(Split(cell, NL)[n]) <= width

\* C23: wrapping measures the display width: every physical line made for
\* a cell has a display width of at most the column's width, and a logical
\* line whose display width fits the column is emitted as one physical
\* line, whatever the characters of its escape sequences.
C23_WrapMeasuresDisplayWidth ==
    (ret.op = "draw" /\ ret.kind = "str")
        => \A r \in 1..Len(tbl.rows) : \A k \in 1..Len(CellLines(tbl, tbl.rows[r])) :
              /\ \A j \in 1..Len(CellLines(tbl, tbl.rows[r])[k]) :
                     VisLen(CellLines(tbl, tbl.rows[r])[k][j]) <= tbl.width[k]
              /\ LogicalLinesFit(tbl.rows[r][k], tbl.width[k])
                    => Len(CellLines(tbl, tbl.rows[r])[k]) = Len(Split(tbl.rows[r][k], NL))

\* The wrapped lines of a cell padded to max_cell_lines with blank lines:
\* at the top for "b", half of them (rounded down) at the top and the rest
\* at the bottom for "m", at the bottom for "t".
PaddedLines(cell, valign, max_cell_lines) ==
    IF valign = "b" THEN Blank(max_cell_lines - Len(cell)) \o cell
    ELSE IF valign = "m"
         THEN Blank((max_cell_lines - Len(cell)) \div 2) \o cell
                \o Blank((max_cell_lines - Len(cell)) - ((max_cell_lines - Len(cell)) \div 2))
         ELSE cell \o Blank(max_cell_lines - Len(cell))

\* The lines are the same but for escape sequences that the repair added.
SameText(repaired, padded) ==
    /\ Len(repaired) = Len(padded)
    /\ \A j \in 1..Len(padded) : StripAnsi(repaired[j]) = StripAnsi(padded[j])

\* C24: after a data row is wrapped every cell of the row has H physical
\* lines, H the largest count of physical lines among the row's cells: the
\* missing blank lines are at the bottom for vertical alignment "t", at the
\* top for "b", and for "m" floor(missing/2) at the top and the rest at the
\* bottom.  (Header rows are padded as "t".)
C24_CellsPaddedToRowHeight ==
    (ret.op = "draw" /\ ret.kind # "none")
        => /\ ret.kind = "str"
           /\ \A r \in 1..Len(tbl.rows) : \A k \in 1..Len(CellLines(tbl, tbl.rows[r])) :
                 SameText(RepairedLines(tbl, tbl.rows[r])[k],
                          PaddedLines(CellLines(tbl, tbl.rows[r])[k], tbl.valign[k],
                                      MaxLen(CellLines(tbl, tbl.rows[r]), 1)))

(***************************************************************************)
(* SpecStyled: StringLengthCalculator.len on texts and on the texts made   *)
(* from them by inserting escape sequences.  The table has one column: its *)
(* header is a text T, and each add_row() stores the text before it with   *)
(* one more sequence inserted; draw() measures them all.                   *)
(***************************************************************************)

\* A wide and a combining character, and a styled letter
StyledTexts == {<<"CJK1", "COMB">>, Bold \o S("a")}

\* ESC "[" parameters final-byte: a style and the reset
StyledSeqs == {Bold, ResetSeq}

\* text with seq inserted before index p
Insert(text, p, seq) == SubSeq(text, 1, p - 1) \o seq \o SubSeq(text, p, Len(text))

\* The texts stored in a table of one column, in the order they were added
TextsOf(t) == t.header \o [r \in 1..Len(t.rows) |-> t.rows[r][1]]

LastText(t) == TextsOf(t)[Len(TextsOf(t))]

InitStyled == InitFrom(Built({<< <<text>> >> : text \in StyledTexts}, {80}, {"light"}, {1}))

StyledAddRow ==
    \E seq \in StyledSeqs : \E p \in 1..(Len(LastText(tbl)) + 1) :
        AddRow(<<Insert(LastText(tbl), p, seq)>>)

NextStyled == StyledAddRow \/ Draw

SpecStyled == InitStyled /\ [][NextStyled]_vars

(***************************************************************************)
(* Properties of the display width (SpecStyled)                            *)
(***************************************************************************)

RECURSIVE InsideFrom(_, _, _)
\* Index p lies inside an escape sequence that the scan from index i finds:
\* after its first code point and not after its last.
InsideFrom(s, i, p) ==
    IF i >= p THEN FALSE
    ELSE IF s[i] = ESC /\ AnsiEscapeEnd(s, i) > 0
         THEN p < AnsiEscapeEnd(s, i) \/ InsideFrom(s, AnsiEscapeEnd(s, i), p)
         ELSE InsideFrom(s, i + 1, p)

InsideEscape(s, p) == InsideFrom(s, 1, p)

BudgetTables ==
    {<< <<S("333 22")>> >>,
     << <<S("ab cd"), S("")>> >>,
     << <<S("ab cd"), S("1")>>, <<S("A"), S("4444")>> >>,
     << <<S("abc"), S("de"), S("f")>> >>}

BudgetArrays == {<<S("ab cdef"), S("")>>, <<S("a"), S("b"), S("cc dd")>>}

BudgetMaxWidths == {0, 5, 8, 9, 11, 13}

InitBudget == InitFrom(Built(BudgetTables, {0, 9}, {"light"}, {1}))

BudgetAddRow == \E array \in BudgetArrays : AddRow(array)

BudgetSetMaxWidth == \E w \in BudgetMaxWidths : SetMaxWidth(w)

BudgetSetHasBorder == \E b \in BOOLEAN : SetHasBorder(b)

NextBudget == BudgetAddRow \/ BudgetSetMaxWidth \/ BudgetSetHasBorder \/ Draw

SpecBudget == InitBudget /\ [][NextBudget]_vars

(***************************************************************************)
(* Properties of the redistribution (SpecBudget)                           *)
(***************************************************************************)

\* 3 * (columns - 1), and 4 more with the border
OverheadOf(t) == 3 * (ColumnCount(t) - 1) + (IF t.has_border THEN 4 ELSE 0)

\* draw() found no width vector, and the natural widths and the overhead
\* exceed a max_width that is at least columns + overhead.
Redistributed ==
    /\ ret.op = "draw" /\ ret.kind # "none" /\ pre.width = NoWidth
    /\ SumSeq(NaturalOf(pre), 1) + OverheadOf(pre) > pre.max_width
    /\ pre.max_width >= ColumnCount(pre) + OverheadOf(pre)

\* C21: when the redistribution runs, the resulting width vector sums to
\* max_width - overhead and no column is wider than its natural width.
C21_RedistributionSpendsBudget ==
    Redistributed =>
        /\ Len(tbl.width) = ColumnCount(pre)
        /\ SumSeq(tbl.width, 1) = pre.max_width - OverheadOf(pre)
        /\ \A c \in 1..Len(tbl.width) : tbl.width[c] <= NaturalOf(pre)[c]

\* The redistribution ran on three columns and shrank one of them, leaving
\* another at its natural width.
C21_Witness ==
    /\ Redistributed /\ ret.kind = "str"
    /\ Len(tbl.width) = 3
    /\ \E c, d \in 1..3 : tbl.width[c] < NaturalOf(pre)[c] /\ tbl.width[d] = NaturalOf(pre)[d]
    /\ SumSeq(tbl.width, 1) = pre.max_width - OverheadOf(pre)

\* Column c was shrunk below its natural width
Shrunk(c) == tbl.width[c] < NaturalOf(pre)[c]

\* Any two columns that were both shrunk differ by at most 1
ShrunkAlike ==
    \A c, d \in 1..Len(tbl.width) :
        (Shrunk(c) /\ Shrunk(d)) => tbl.width[c] - tbl.width[d] \in {-1, 0, 1}

\* C22, as claimed: when the redistribution runs, every column of the
\* resulting width vector is at least 1, and the widths of any two columns
\* that were both shrunk below their natural width differ by at most 1.
C22_EveryColumnKeepsOne ==
    Redistributed =>
        /\ \A c \in 1..Len(tbl.width) : tbl.width[c] >= 1
        /\ ShrunkAlike

\* C22, amended: the same for the columns whose natural width is at least
\* 1; a column of natural width 0 gets width 0.
C22_EveryNonEmptyColumnKeepsOne ==
    Redistributed =>
        /\ \A c \in 1..Len(tbl.width) :
              IF NaturalOf(pre)[c] >= 1 THEN tbl.width[c] >= 1 ELSE tbl.width[c] = 0
        /\ ShrunkAlike

\* The redistribution shrank two columns to widths that differ by 1, the
\* wider of them at least 2.
C22_Witness ==
    /\ Redistributed /\ ret.kind = "str"
    /\ \E c, d \in 1..Len(tbl.width) :
          /\ Shrunk(c) /\ Shrunk(d)
          /\ tbl.width[c] = tbl.width[d] + 1
          /\ tbl.width[d] >= 1

(***************************************************************************)
(* SpecLoop: the redistribution loop of _compute_cols_width, one iteration *)
(* per step, for the tables of SpecBudget that reach it.                   *)
(***************************************************************************)

LoopMaxWidths == {5, 6, 7, 8, 9, 10, 11, 12, 13, 14, 15}

\* The tables before draw(), with and without the border
LoopObjects ==
    {SetHasBorderOp(t, b).t : t \in Built(BudgetTables, LoopMaxWidths, {"light"}, {1}),
                               b \in BOOLEAN}

\* _compute_cols_width reaches the loop: the natural widths and the
\* decoration exceed max_width, and max_width is not below the minimum.
EntersLoop(maxi, maxw, deco_width) ==
    /\ maxw # 0
    /\ SumSeq(maxi, 1) + deco_width > maxw
    /\ ~BelowMinimum(maxw, Len(maxi), deco_width)

\* available_width, newmaxi = [0] * ncols and i = 0 (here 1) before the loop
LoopEntry(maxi, maxw, deco_width) ==
    [pc |-> "while", maxi |-> maxi, newmaxi |-> [c \in 1..Len(maxi) |-> 0], i |-> 1,
     available_width |-> maxw - deco_width]

LoopOf(t) ==
    LoopEntry(NaturalWidths(t.header, t.rows), t.max_width,
              DecoWidth(Len(NaturalWidths(t.header, t.rows)), t.has_border))

InitLoop ==
    /\ tbl \in {t \in LoopObjects :
                   EntersLoop(NaturalWidths(t.header, t.rows), t.max_width,
                              DecoWidth(Len(NaturalWidths(t.header, t.rows)), t.has_border))}
    /\ calls = 0
    /\ ret = NoCall
    /\ prev = NoCall
    /\ pre = tbl
    /\ hist = NoHist
    /\ loop = LoopOf(tbl)

\* if newmaxi[i] < maxi[i], with the increment of i taken too far by one
BelowNaturalByTwo(newmaxi, maxi, i) == newmaxi[i] + 1 < maxi[i]

\* if newmaxi[i] < maxi[i]
BelowNatural(newmaxi, maxi, i) == newmaxi[i] < maxi[i]

\* One iteration of while available_width > 0
LoopStep ==
    /\ loop.pc = "while"
    /\ loop.available_width > 0
    /\ loop' = IF BelowNatural(loop.newmaxi, loop.maxi, loop.i)
               THEN [loop EXCEPT !.newmaxi[loop.i] = @ + 1,
                                 !.available_width = @ - 1,
                                 !.i = (loop.i % Len(loop.maxi)) + 1]
               ELSE [loop EXCEPT !.i = (loop.i % Len(loop.maxi)) + 1]
    /\ UNCHANGED <<tbl, calls, ret, prev, pre, hist>>

\* The loop ends: maxi = newmaxi and self._width = maxi
LoopExit ==
    /\ loop.pc = "while"
    /\ loop.available_width <= 0
    /\ loop' = [loop EXCEPT !.pc = "done"]
    /\ tbl' = [tbl EXCEPT !.width = loop.newmaxi]
    /\ UNCHANGED <<calls, ret, prev, pre, hist>>

NextLoop == LoopStep \/ LoopExit

\* The loop is sequential code: it keeps running while it can take a step.
SpecLoop == InitLoop /\ [][NextLoop]_vars /\ WF_vars(NextLoop)

(***************************************************************************)
(* Properties of the redistribution loop (SpecLoop)                        *)
(***************************************************************************)

\* C30: the round-robin loop terminates for every table that reaches it,
\* tables with columns of natural width 0 included: while budget remains
\* there is a column below its natural width, and the loop ends.
C30_RedistributionTerminates ==
    /\ []((loop.pc = "while" /\ loop.available_width > 0)
            => \E c \in 1..Len(loop.maxi) : loop.newmaxi[c] < loop.maxi[c])
    /\ <>(loop.pc = "done")

\* The loop ended on a table with a column of natural width 0 and stored
\* the widths that draw() computes in one step.
C30_Witness ==
    /\ loop.pc = "done"
    /\ \E c \in 1..Len(loop.maxi) : loop.maxi[c] = 0
    /\ tbl.width = loop.newmaxi
    /\ tbl.width = DrawOp(pre).t.width

(***************************************************************************)
(* SpecTabs: the intrinsic width of cells with tabs, newlines, wide and    *)
(* combining characters and escape characters: draw() computes it for the  *)
(* one column of the table, with max_width unbounded.                      *)
(***************************************************************************)

TabCells ==
    {S("a"),
     <<"a", TAB, "b">>,
     <<TAB>>,
     S("abcdefgh") \o <<TAB, "b">>,
     <<"a", NL, "b", "c", TAB>>,
     <<"CJK1", TAB, "COMB", "a">>,
     <<ESC>>,
     <<ESC, TAB, "a">>,
     Red \o S("ab")}

InitTabs == InitFrom(Built({NoRows}, {0}, {"light"}, {1}))

TabsAddRow == \E cell \in TabCells : AddRow(<<cell>>)

NextTabs == TabsAddRow \/ Draw

SpecTabs == InitTabs /\ [][NextTabs]_vars

(***************************************************************************)
(* Properties of the intrinsic width (SpecTabs)                            *)
(***************************************************************************)

\* The next multiple of 8 strictly greater than length
TabStopAfter(length) == CHOOSE m \in (length + 1)..(length + 8) : m % 8 = 0

RECURSIVE LineWidth(_, _, _)
\* The width of a line, accumulated over its tab-separated parts from
\* part n on
LineWidth(parts, n, length) ==
    IF n > Len(parts) THEN length
    ELSE IF n < Len(parts)
         THEN LineWidth(parts, n + 1, TabStopAfter(length + VisLen(parts[n])))
         ELSE length + VisLen(parts[n])

\* The widths of the newline-separated lines of a cell
LineWidths(cell) ==
    {LineWidth(Split(Split(cell, NL)[n], TAB), 1, 0) : n \in 1..Len(Split(cell, NL))}

\* draw() computed the widths of a table of one column.
MeasuredColumn ==
    /\ ret.op = "draw" /\ ret.kind # "none" /\ pre.width = NoWidth
    /\ Len(pre.header) = 0

OrderValues == {S("12.5"), S("543"), S("abc"), S("1234567")}

OrderDtypes == {<<"a">>, <<"f">>, <<"e">>, <<"t">>}

OrderPrecisions == {1, 3}

InitOrder ==
    InitFrom({SetColsDtypeOp(t, <<"t">>).t : t \in Built({NoRows}, {80}, {"light"}, {1})})

OrderAddRow == \E x \in OrderValues : AddRow(<<x>>)

OrderSetColsDtype == \E array \in OrderDtypes : SetColsDtype(array)

OrderSetPrecision == \E width \in OrderPrecisions : SetPrecision(width)

NextOrder == OrderAddRow \/ OrderSetColsDtype \/ OrderSetPrecision \/ Draw

SpecOrder == InitOrder /\ [][NextOrder]_vars

(***************************************************************************)
(* Properties of the formatting order (SpecOrder)                          *)
(***************************************************************************)

\* The table with the configuration of t to which the raw rows are added
\* after the configuration was set
AddedAfter(t, raw) == AddEach(Ok([t EXCEPT !.rows = <<>>]), raw, 1).t

\* Every call so far but the last added a row to the text column, so the
\* stored cells are the raw values; the last call set the dtype or the
\* precision.
SettersCameLast ==
    /\ ret.op \in {"set_cols_dtype", "set_precision"} /\ ret.err = ""
    /\ calls = Len(tbl.rows) + 1
    /\ Len(tbl.rows) > 0

\* C26: draw() is a function of the content and of the configuration at
\* the time of the draw: for the same header, the same raw row values and
\* the same final dtypes and precision it returns the same string whether
\* set_cols_dtype() and set_precision() were called before the add_row()
\* calls or after them.
C26_DrawIgnoresSetterOrder ==
    [][(Draw /\ SettersCameLast) => ret'.out = DrawOp(AddedAfter(tbl, tbl.rows)).out]_vars

(***************************************************************************)
(* SpecAuto: add_row() on a column left at the auto dtype, with values     *)
(* that are not numbers, integral, fractional, at and above 1e8, infinite  *)
(* and NaN, under precisions 0 and 3.                                      *)
(***************************************************************************)

AutoValues ==
    {S("543"), S("23.45"), S("-7.0"), S("1e8"), S("2e8"), S("100000000.5"),
     S("inf"), S("nan"), S("abc"), S("")}

AutoPrecisions == {0, 3}

InitAuto == InitFrom(Built({NoRows}, {80}, {"light"}, {1}))

AutoAddRow == \E x \in AutoValues : AddRow(<<x>>)

AutoSetPrecision == \E width \in AutoPrecisions : SetPrecision(width)

NextAuto == AutoAddRow \/ AutoSetPrecision

SpecAuto == InitAuto /\ [][NextAuto]_vars

(***************************************************************************)
(* Properties of the auto dtype (SpecAuto)                                 *)
(***************************************************************************)

\* The value of f is above 1e8 in magnitude.
Above1e8(f) ==
    \/ f.kind = "inf"
    \/ /\ f.kind = "num"
       /\ \/ f.mant \div Pow10(f.scale) >= Pow10(8) + 1
          \/ f.mant \div Pow10(f.scale) = Pow10(8) /\ f.mant % Pow10(f.scale) # 0

\* The dtype whose formatter the decision order selects for the value x
AutoChoice(x) ==
    IF ToFloat(x).kind = "fail" THEN "t"
    ELSE IF Above1e8(ToFloat(x)) THEN "e"
    ELSE IF ToFloat(x).kind = "nan" THEN "t"
    ELSE IF ToFloat(x).mant % Pow10(ToFloat(x).scale) = 0 THEN "i"
    ELSE "f"

GlyphLists == {Glyphs("-|+="), Glyphs("abcdefghijklmno"), Glyphs("-|+")}

GlyphStyles == {"ascii", "light"}

InitGlyphs ==
    InitFrom(Built({NoRows, << <<S("A"), S("B")>>, <<S("1"), S("2")>> >>},
                   {80}, {"light"}, {1}))

GlyphsSetTableLines == \E table_lines \in GlyphLists : SetTableLines(table_lines)

GlyphsSetStyle == \E style \in GlyphStyles : SetStyle(style)

NextGlyphs == GlyphsSetTableLines \/ GlyphsSetStyle \/ Draw

SpecGlyphs == InitGlyphs /\ [][NextGlyphs]_vars

(***************************************************************************)
(* Properties of the glyph table (SpecGlyphs)                              *)
(***************************************************************************)

\* The slots in the documented order
SlotOrder ==
    <<"ew", "ns", "se", "sw", "ne", "nw", "nse", "nsw", "sew", "new", "nsew",
      "hew", "hnse", "hnsw", "hnsew">>

\* The four corners, the five junctions and the three header junctions
CornerSlots ==
    {"se", "sw", "ne", "nw", "nse", "nsw", "sew", "new", "nsew", "hnse", "hnsw", "hnsew"}

\* The 15-slot table that a list of four glyphs stands for
FromFour(chars, g) ==
    /\ DOMAIN chars = {SlotOrder[n] : n \in 1..15}
    /\ chars.ew = g[1]
    /\ chars.ns = g[2]
    /\ chars.hew = g[4]
    /\ \A slot \in CornerSlots : chars[slot] = g[3]

\* C28: a list of 4 glyphs (horizontal, vertical, corner, header
\* horizontal) resolves to a table of 15 slots: the horizontal slot is the
\* first glyph, the vertical slot the second, the header horizontal slot the
\* fourth, and every corner and junction slot is the corner glyph; a list
\* of 15 glyphs is stored slot for slot in the documented order.
C28_GlyphListResolves ==
    [][\A g \in GlyphLists :
          (SetTableLines(g) /\ Len(g) \in {4, 15})
             => /\ ret'.err = ""
                /\ Len(g) = 4 => FromFour(tbl'.chars, g)
                /\ Len(g) = 15 => \A n \in 1..15 : tbl'.chars[SlotOrder[n]] = g[n]]_vars

\* set_table_lines stored a list of 4 glyphs and draw() used the corner
\* glyph at the ends of the header separator, between runs of the header
\* glyph.
C28_Witness ==
    /\ ret.op = "draw" /\ ret.kind = "str"
    /\ prev.op = "set_table_lines" /\ prev.err = ""
    /\ FromFour(tbl.chars, Glyphs("-|+="))
    /\ \E k \in 1..Len(ret.segs) :
          /\ ret.segs[k].kind = "hsep"
          /\ ret.segs[k].lines = <<S("+===+===+")>>

(***************************************************************************)
(* SpecFit: draw() under a bounded max_width with paddings 0, 1 and 2 and  *)
(* every combination of decoration flags, on the tables of SpecBudget.     *)
(***************************************************************************)

FitMaxWidths == {9, 13}

FitPaddings == {0, 1, 2}

FitDecorations == 0..(VLINES + HLINES + BORDER + HEADER)

InitFit == InitFrom(Built(BudgetTables, FitMaxWidths, {"light"}, {1}))

FitSetPadding == \E amount \in FitPaddings : SetPadding(amount)

FitSetDecorations == \E d \in FitDecorations : SetDecorations(d)

NextFit == FitSetPadding \/ FitSetDecorations \/ Draw

SpecFit == InitFit /\ [][NextFit]_vars

(***************************************************************************)
(* Properties of the drawn width (SpecFit)                                 *)
(***************************************************************************)

\* C29: when max_width is bounded, no fixed widths are set and draw()
\* succeeds, every physical line of the output has a display width of at
\* most max_width, for every padding >= 0 and every combination of
\* decoration flags.
C29_LinesWithinMaxWidth ==
    (Drew /\ pre.max_width > 0 /\ hist.fixed = NoWidth)
        => \A n \in 1..Len(OutLines) : VisLen(OutLines[n]) <= pre.max_width

====
